---- MODULE Spec2Model ----
(***************************************************************************)
(* A model of notruri/pahe: the range-parallel transfer engine             *)
(* (crates/downloader/src/lib.rs) and the kwik mirror-link resolver        *)
(* (crates/core/src/kwik.rs).                                              *)
(***************************************************************************)
EXTENDS Integers, Sequences, FiniteSets, Bags, TLC

(* ------------------------------ bounds -------------------------------- *)
\* largest resource length (bytes) of a modelled transfer
MaxSize == 4
\* largest requested connection count of a modelled transfer
MaxConn == 3
\* ticker firings (120 ms interval) modelled per transfer
MaxTicks == 1
\* largest resource length / connection count given to the range planner alone
MaxPlanSize == 12
MaxPlanConn == 5
\* bits of the modelled i64 and usize (the code's are 64 bits wide)
IntBits == 8
\* longest encoded text that is not built by Encode
MaxEncLen == 3
\* the event loop: resource lengths, connections
MaxObsSize == 1
MaxObsConn == 1
\* longest release list of a series
MaxReleases == 32
\* longest episode argument that is built character by character
MaxArgLen == 4

(* --------------------------- small helpers ----------------------------- *)
Max(a, b) == IF a >= b THEN a ELSE b
Min(a, b) == IF a <= b THEN a ELSE b
\* u64::div_ceil
DivCeil(a, b) == (a \div b) + (IF a % b > 0 THEN 1 ELSE 0)
\* Option<u64>
NoneU64 == [some |-> FALSE, v |-> 0]
SomeU64(n) == [some |-> TRUE, v |-> n]
\* the resource served at the url: the byte at offset k is k, so order shows
Resource(len) == [k \in 1..len |-> k - 1]
Slice(start, end) == [k \in 1..(end - start + 1) |-> start + k - 1]
EmptyMap == [i \in {} |-> <<>>]

\* Result<()> of download(): Ok(()), or a DownloaderError with its context (errors.rs:6-26)
Running == [kind |-> "none", context |-> ""]
Ok == [kind |-> "Ok", context |-> ""]
Err(kind, context) == [kind |-> kind, context |-> context]

(* ------------------------------ state ---------------------------------- *)
VARIABLES
    \* ---- transfer engine (crates/downloader/src/lib.rs) ----
    pc,             \* position of the download future
    result,         \* what download() returned: "none" while running
    resLen,         \* actual length of the resource on the server
    connections,    \* DownloadConfig.connections
    size,           \* Option<u64> parsed from Content-Length of the HEAD response
    accepts_ranges, \* Accept-Ranges: bytes on the HEAD response
    total_size,     \* parallel_download argument
    workers,        \* connections.max(1).min(total_size)
    chunk_size,     \* total_size.div_ceil(workers)
    task,           \* idx -> spawned fetch task: [st, start, end, res]
    chan,           \* mpsc channel contents (FIFO of Result<(usize, Vec<u8>)>)
    senders,        \* live Sender handles (tx and its clones)
    rxOpen,         \* the Receiver has not been dropped
    next,           \* next index to flush
    pending,        \* BTreeMap idx -> bytes
    arrived,        \* history: the indices of the Ok messages in the order received
    downloaded,     \* bytes written so far as counted by the loop
    progress,       \* ProgressRenderer: [total, downloaded, spinner_step, done]
    file,           \* [created, bytes]: the output file
    ss_total,       \* single_stream_download argument total_size: Option<u64>
    bodyPos,        \* single stream: bytes of the response body already delivered
    heads,          \* HEAD requests issued
    wholeGets,      \* GET requests without a Range header issued
    rangeReqs,      \* bag of <<start, end>>: Range GET requests issued
    events,         \* history: what the transfer has emitted to its observer, in order
    \* ---- mirror resolver (crates/core/src/kwik.rs) ----
    kpc,            \* position of the extract_kwik_link future ("panic": unwound)
    kresult,        \* what extract_kwik_link returned: kind "none" while running
    pahe_link,      \* extract_kwik_link argument
    kwik_link,      \* the mirror link found on the pahe page
    retries,        \* fetch_kwik_dlink argument of the pending call
    attempts,       \* history: one record per mirror page GET of fetch_kwik_dlink
    paheResp,       \* history: the response to the pahe page GET
    postTarget,     \* (link, token) handed to fetch_kwik_direct
    postResp,       \* history: the response to the form POST
    reqLog,         \* history: the requests issued, in order
    \* ---- packed payload codec on its own (crates/core/src/kwik.rs) ----
    cpc,            \* "idle", "ready" before the call, "done" after it
    fn,             \* the function under call: "decode" or "extract"
    packed,         \* what packed_re captured: encoded, alphabet_key, offset, base
    overflow_checks,\* build profile: TRUE panics on integer overflow, FALSE wraps
    original,       \* the code points the encoded text was built from, if it was
    decoded,        \* what parsing the fields and decode_js_style gave
    markup,         \* extract_link_and_token argument, as its patterns see it
    extracted,      \* what extract_link_and_token returned
    \* ---- the caller's event loop (crates/cli/src/app.rs, progress.rs) ----
    opc,            \* "idle"; "loop": in the select loop; "drain"; "done"
    received,       \* how many events events_rx has handed to the loop
    progress_renderer, \* DownloadProgressRenderer
    download_result,\* what the loop broke with: kind "none" before
    drained,        \* history: how many events the try_recv loop handled
    \* ---- cookie stores (core/src/kwik.rs:27-54, src/client.rs:85-124) ----
    cookie_header,  \* instance -> the cookie string the caller supplied ("" for None)
    pahe_jar,       \* instance -> the cookies in PaheClient's jar
    jar,            \* instance -> the cookies in its KwikClient's jar
    jpc,            \* instance -> position of its resolution
    jretries,       \* instance -> retry budget left
    sent,           \* history: the requests sent, with the cookies each carried
    \* ---- release pages (src/client.rs:293-368) ----
    lpc,            \* "idle"; "call" before the call; "page": in the page loop; "done"
    release_total,  \* server: the number of entries of the ascending release list
    cookie_hint,    \* self.cookie_header.is_some()
    from_episode,   \* fetch_series_episode_links argument
    to_episode,     \* fetch_series_episode_links argument
    page,           \* the loop variable of `for page in start_page..=end_page`
    links,          \* Vec<(u32, String)> collected so far
    pageLog,        \* history: the pages requested, in order
    lresult,        \* what fetch_series_episode_links returned: kind "none" before
    \* ---- the episode argument (crates/cli/src/args.rs:102-166) ----
    apc,            \* "idle"; "ready" before from_str; "parsed"; "shown"; "done"
    episodes,       \* the text given for --episodes (args.rs:29-31)
    parsed,         \* "".parse::<EpisodeRange>() of the argument
    shown,          \* the Display text of the parsed value
    reparsed        \* the Display text parsed again

dlVars == <<pc, result, resLen, connections, size, accepts_ranges, total_size,
            workers, chunk_size, task, chan, senders, rxOpen, next, pending,
            arrived, downloaded, progress, file, ss_total, bodyPos, heads, wholeGets,
            rangeReqs, events>>

kwVars == <<kpc, kresult, pahe_link, kwik_link, retries, attempts, paheResp,
            postTarget, postResp, reqLog>>

cdVars == <<cpc, fn, packed, overflow_checks, original, decoded, markup, extracted>>

obVars == <<opc, received, progress_renderer, download_result, drained>>

ckVars == <<cookie_header, pahe_jar, jar, jpc, jretries, sent>>

clVars == <<lpc, release_total, cookie_hint, from_episode, to_episode, page, links,
            pageLog, lresult>>

agVars == <<apc, episodes, parsed, shown, reparsed>>

vars == <<dlVars, kwVars, cdVars, obVars, ckVars, clVars, agVars>>

(* ----------------------- range planning (pure) ------------------------- *)
\* a routing test that needs both signals to be absent
UseSingleStreamBothAbsent(sz, acc) == (~sz.some) /\ (~acc)

\* lib.rs:67  the routing test of download()
UseSingleStream(sz, acc) == (~sz.some) \/ (~acc)

\* a worker count that takes the larger of the two instead of the smaller
WorkersForLarger(conn, total) == Max(Max(conn, 1), total)

\* lib.rs:254
WorkersFor(conn, total) == Min(Max(conn, 1), total)

\* a chunk size rounded down
ChunkSizeForFloor(total, w) == total \div w

\* lib.rs:255
ChunkSizeFor(total, w) == DivCeil(total, w)

\* lib.rs:259
RangeStart(idx, cs) == idx * cs

\* an exclusive end used as an inclusive one
RangeEndExclusive(idx, cs, total) == Min((idx + 1) * cs, total)

\* lib.rs:263
RangeEnd(idx, cs, total) == Min((idx + 1) * cs, total) - 1

\* one task more than there are workers
SpawnedIdxInclusive(total, w, cs) == 0..w

\* lib.rs:258-262: the indices of 0..workers that get a task
SpawnedIdx(total, w, cs) == {idx \in 0..(w - 1) : ~(RangeStart(idx, cs) >= total)}

(* --------------------------- ProgressRenderer -------------------------- *)
\* lib.rs:332-339
ProgressNew(total) == [total |-> total, downloaded |-> 0, spinner_step |-> 0, done |-> FALSE]
\* an advance that stores the size of the buffer instead of adding it
ProgressAdvanceSet(p, n) == [p EXCEPT !.downloaded = n]
\* lib.rs:341-343 (saturating_add never saturates within the bounds)
ProgressAdvance(p, n) == [p EXCEPT !.downloaded = @ + n]
\* a set that adds the running total to what is already counted
ProgressSetAdd(p, n) == [p EXCEPT !.downloaded = @ + n]
\* lib.rs:345-347
ProgressSet(p, n) == [p EXCEPT !.downloaded = n]
\* lib.rs:349-401: a non-final draw advances the spinner, a final one prints the line end
ProgressDraw(p, done) ==
    IF done THEN [p EXCEPT !.done = TRUE]
    ELSE [p EXCEPT !.spinner_step = @ + 1]

(* ------------------------ what the observer is told -------------------- *)
\* DownloadEvent as its consumer takes it apart (cli/src/progress.rs:47-78):
\* Started { total_bytes, .. }, Progress { downloaded_bytes, total_bytes, elapsed },
\* Finished { downloaded_bytes, elapsed }.  The downloader reports through its
\* ProgressRenderer: new() starts the report with the total (lib.rs:211, 287),
\* draw(false) reports progress and draw(true) the end, each with the renderer's
\* downloaded and total.  written and requested record, for the properties, the
\* bytes in the output file and the byte requests issued when the report is made.
DownloadEvent(kind, p, written, requested) ==
    [kind |-> kind, downloaded_bytes |-> p.downloaded, total_bytes |-> p.total,
     written |-> written, requested |-> requested]

\* a draw that reports the end whatever it is asked
DrawEventDone(done, p, written, requested) ==
    DownloadEvent("Finished", p, written, requested)

\* a draw that never reports the end
DrawEventProgress(done, p, written, requested) ==
    DownloadEvent("Progress", p, written, requested)

\* lib.rs:349-401: draw(done) reports the end when done, progress otherwise
DrawEvent(done, p, written, requested) ==
    DownloadEvent(IF done THEN "Finished" ELSE "Progress", p, written, requested)

\* a channel of capacity one whose send waits for room
EventsChannelFullAtOne(queued) == queued >= 1

\* app.rs:194, 199-201: the callback sends each event into an unbounded channel
\* and ignores the outcome, so a report never waits for room
EventsChannelFull(queued) == FALSE

\* the requests for the resource's bytes issued so far
ByteRequests(gets, ranges) == gets + BagCardinality(ranges)

(* ------------------------------- Init ---------------------------------- *)
DlInit(sizes, conns) ==
    /\ pc = "download"
    /\ result = Running
    /\ resLen \in sizes
    /\ connections \in conns
    /\ size = NoneU64
    /\ accepts_ranges = FALSE
    /\ total_size = 0
    /\ workers = 0
    /\ chunk_size = 0
    /\ task = EmptyMap
    /\ chan = <<>>
    /\ senders = 0
    /\ rxOpen = FALSE
    /\ next = 0
    /\ pending = EmptyMap
    /\ arrived = <<>>
    /\ downloaded = 0
    /\ progress = ProgressNew(NoneU64)
    /\ file = [created |-> FALSE, bytes |-> <<>>]
    /\ ss_total = NoneU64
    /\ bodyPos = 0
    /\ heads = 0
    /\ wholeGets = 0
    /\ rangeReqs = EmptyBag
    /\ events = <<>>

\* download() returns: the future is dropped, and with it the Receiver and the file handle
Return(r) ==
    /\ pc' = "done"
    /\ result' = r
    /\ rxOpen' = FALSE
    /\ chan' = <<>>

(* ------------------------ download(), lib.rs:42-79 --------------------- *)
Download ==
    /\ pc = "download"
    /\ heads' = heads + 1
    /\ \/ \* the HEAD request fails (lib.rs:50-53)
          /\ Return(Err("Request", "sending HEAD request"))
          /\ UNCHANGED <<size, accepts_ranges, total_size, ss_total>>
       \/ \E sz \in {NoneU64, SomeU64(resLen)}, acc \in BOOLEAN :
             /\ size' = sz
             /\ accepts_ranges' = acc
             /\ IF UseSingleStream(sz, acc)
                THEN /\ pc' = "single_get"
                     /\ ss_total' = sz
                     /\ UNCHANGED total_size
                ELSE /\ pc' = "parallel"
                     /\ total_size' = (IF sz.some THEN sz.v ELSE 0)
                     /\ UNCHANGED ss_total
             /\ UNCHANGED <<result, rxOpen, chan>>
    /\ UNCHANGED <<resLen, connections, workers, chunk_size, task, senders, next,
                   pending, arrived, downloaded, progress, file, bodyPos, wholeGets, rangeReqs, events>>
    /\ UNCHANGED <<kwVars, cdVars, obVars, ckVars, clVars, agVars>>

(* ----------------- single_stream_download(), lib.rs:180-240 ------------ *)
\* lib.rs:187-201: the whole-resource GET and its status check
SingleGet ==
    /\ pc = "single_get"
    /\ wholeGets' = wholeGets + 1
    /\ \/ Return(Err("Request", "sending GET request"))
       \/ Return(Err("HttpStatus", "downloading file"))
       \/ /\ pc' = "single_create"
          /\ UNCHANGED <<result, rxOpen, chan>>
    /\ UNCHANGED <<resLen, connections, size, accepts_ranges, total_size, workers,
                   chunk_size, task, senders, next, pending, arrived, downloaded, progress,
                   file, ss_total, bodyPos, heads, rangeReqs, events>>
    /\ UNCHANGED <<kwVars, cdVars, obVars, ckVars, clVars, agVars>>

\* lib.rs:203-211: ensure_parent_dir, File::create, ProgressRenderer::new
SingleCreate ==
    /\ pc = "single_create"
    /\ ~EventsChannelFull(Len(events) - received)
    /\ \/ /\ Return(Err("Io", "creating output file"))
          /\ UNCHANGED <<file, progress, events>>
       \/ /\ file' = [created |-> TRUE, bytes |-> <<>>]
          /\ progress' = ProgressNew(ss_total)
          /\ events' = Append(events, DownloadEvent("Started", progress', 0,
                                                    ByteRequests(wholeGets, rangeReqs)))
          /\ pc' = "single_loop"
          /\ UNCHANGED <<result, rxOpen, chan>>
    /\ UNCHANGED <<resLen, connections, size, accepts_ranges, total_size, workers,
                   chunk_size, task, senders, next, pending, arrived, downloaded, ss_total,
                   bodyPos, heads, wholeGets, rangeReqs>>
    /\ UNCHANGED <<kwVars, cdVars, obVars, ckVars, clVars, agVars>>

\* lib.rs:213-239: one turn of the read loop, or its end
SingleChunk ==
    /\ pc = "single_loop"
    /\ ~EventsChannelFull(Len(events) - received)
    /\ \/ \* response.chunk() fails (lib.rs:217-220)
          /\ Return(Err("Request", "reading response body"))
          /\ UNCHANGED <<file, progress, bodyPos, events>>
       \/ \* the body is exhausted: break, final draw, Ok (lib.rs:222-224, 237-239)
          /\ bodyPos = resLen
          /\ progress' = ProgressDraw(progress, TRUE)
          /\ events' = Append(events, DrawEvent(TRUE, progress', Len(file.bytes),
                                                    ByteRequests(wholeGets, rangeReqs)))
          /\ Return(Ok)
          /\ UNCHANGED <<file, bodyPos>>
       \/ \E n \in 1..(resLen - bodyPos) :
             LET chunk == Slice(bodyPos, bodyPos + n - 1) IN
             /\ bodyPos' = bodyPos + n
             /\ \/ \* write_all succeeds (lib.rs:226-234)
                   /\ file' = [file EXCEPT !.bytes = @ \o chunk]
                   /\ progress' = ProgressDraw(ProgressAdvance(progress, Len(chunk)), FALSE)
                   /\ events' = Append(events,
                                       DrawEvent(FALSE, progress', Len(file'.bytes),
                                                     ByteRequests(wholeGets, rangeReqs)))
                   /\ UNCHANGED <<pc, result, rxOpen, chan>>
                \/ \* write_all fails after writing part of the buffer (lib.rs:228-231)
                   \E part \in 0..(n - 1) :
                      /\ file' = [file EXCEPT !.bytes = @ \o SubSeq(chunk, 1, part)]
                      /\ Return(Err("Io", "writing output file"))
                      /\ UNCHANGED <<progress, events>>
    /\ UNCHANGED <<resLen, connections, size, accepts_ranges, total_size, workers,
                   chunk_size, task, senders, next, pending, arrived, downloaded, ss_total,
                   heads, wholeGets, rangeReqs>>
    /\ UNCHANGED <<kwVars, cdVars, obVars, ckVars, clVars, agVars>>

(* ------------------- parallel_download(), lib.rs:242-322 --------------- *)
\* Result<(usize, Vec<u8>)>
NoRes == [ok |-> FALSE, idx |-> 0, bytes |-> <<>>, err |-> Running]
OkRes(idx, bytes) == [ok |-> TRUE, idx |-> idx, bytes |-> bytes, err |-> Ok]
ErrRes(idx, e) == [ok |-> FALSE, idx |-> idx, bytes |-> <<>>, err |-> e]

\* lib.rs:258-272: one task per index that passes the start test
SpawnTasks(total, w, cs) ==
    [idx \in SpawnedIdx(total, w, cs) |->
        [st |-> "spawned", start |-> RangeStart(idx, cs),
         end |-> RangeEnd(idx, cs, total), res |-> NoRes]]

\* a plan without the empty-resource shortcut: zero bytes give zero workers, and the
\* chunk size is a division by zero (the thread panics)
ParallelPlanNoShortcut ==
    /\ pc = "parallel"
    /\ LET w == WorkersFor(connections, total_size) IN
       IF w = 0
       THEN /\ workers' = w
            /\ pc' = "panic"
            /\ UNCHANGED <<chunk_size, task, senders, rxOpen, ss_total>>
       ELSE LET cs == ChunkSizeFor(total_size, w)
                t == SpawnTasks(total_size, w, cs)
            IN /\ workers' = w
               /\ chunk_size' = cs
               /\ task' = t
               /\ senders' = Cardinality(DOMAIN t)
               /\ rxOpen' = TRUE
               /\ pc' = "par_create"
               /\ UNCHANGED ss_total
    /\ UNCHANGED <<result, resLen, connections, size, accepts_ranges, total_size, chan,
                   next, pending, arrived, downloaded, progress, file, bodyPos, heads,
                   wholeGets, rangeReqs, events>>
    /\ UNCHANGED <<kwVars, cdVars, obVars, ckVars, clVars, agVars>>

\* lib.rs:249-274: the empty-resource shortcut, the plan, the spawns, drop(tx)
ParallelPlan ==
    /\ pc = "parallel"
    /\ IF total_size = 0
       THEN /\ pc' = "single_get"
            /\ ss_total' = SomeU64(total_size)
            /\ UNCHANGED <<workers, chunk_size, task, senders, rxOpen>>
       ELSE LET w == WorkersFor(connections, total_size)
                cs == ChunkSizeFor(total_size, w)
                t == SpawnTasks(total_size, w, cs)
            IN /\ workers' = w
               /\ chunk_size' = cs
               /\ task' = t
               /\ senders' = Cardinality(DOMAIN t)
               /\ rxOpen' = TRUE
               /\ pc' = "par_create"
               /\ UNCHANGED ss_total
    /\ UNCHANGED <<result, resLen, connections, size, accepts_ranges, total_size, chan,
                   next, pending, arrived, downloaded, progress, file, bodyPos, heads,
                   wholeGets, rangeReqs, events>>
    /\ UNCHANGED <<kwVars, cdVars, obVars, ckVars, clVars, agVars>>

\* lib.rs:276-288: ensure_parent_dir, File::create, the loop's locals
ParallelCreate ==
    /\ pc = "par_create"
    /\ ~EventsChannelFull(Len(events) - received)
    /\ \/ /\ Return(Err("Io", "creating output file"))
          /\ UNCHANGED <<file, next, pending, downloaded, progress, arrived, events>>
       \/ /\ file' = [created |-> TRUE, bytes |-> <<>>]
          /\ next' = 0
          /\ pending' = EmptyMap
          /\ arrived' = <<>>
          /\ downloaded' = 0
          /\ progress' = ProgressNew(SomeU64(total_size))
          /\ events' = Append(events, DownloadEvent("Started", progress', 0,
                                                    ByteRequests(wholeGets, rangeReqs)))
          /\ pc' = "par_loop"
          /\ UNCHANGED <<result, rxOpen, chan>>
    /\ UNCHANGED <<resLen, connections, size, accepts_ranges, total_size, workers,
                   chunk_size, task, senders, ss_total, bodyPos, heads, wholeGets,
                   rangeReqs>>
    /\ UNCHANGED <<kwVars, cdVars, obVars, ckVars, clVars, agVars>>

\* BTreeMap::insert
MapInsert(m, k, v) == [i \in (DOMAIN m) \cup {k} |-> IF i = k THEN v ELSE m[i]]
\* BTreeMap::remove of a present key
MapRemove(m, k) == [i \in (DOMAIN m) \ {k} |-> m[i]]

\* a flush loop that writes whatever is buffered, lowest key first, without
\* waiting for the chunk at the cursor
RECURSIVE FlushLoopNoCursor(_, _, _)
FlushLoopNoCursor(st, failAt, part) ==
    IF DOMAIN st.pending = {}
    THEN st
    ELSE LET k == CHOOSE i \in DOMAIN st.pending : \A j \in DOMAIN st.pending : i <= j
             bytes == st.pending[k]
         IN FlushLoopNoCursor(
                [st EXCEPT !.pending = MapRemove(st.pending, k),
                           !.file = @ \o bytes,
                           !.downloaded = @ + Len(bytes),
                           !.progress = ProgressDraw(
                               ProgressSet(@, st.downloaded + Len(bytes)), FALSE),
                           !.next = @ + 1],
                failAt, part)

\* lib.rs:300-311: `while let Some(bytes) = pending.remove(&next)`.  st carries the
\* loop's locals; failAt = j > 0 makes the j-th write_all of this run fail after
\* `part` bytes; failAt = 0 lets every write succeed.
RECURSIVE FlushLoop(_, _, _)
FlushLoop(st, failAt, part) ==
    IF st.next \notin DOMAIN st.pending
    THEN st
    ELSE LET bytes == st.pending[st.next]
             rest == MapRemove(st.pending, st.next)
         IN IF failAt = 1
            THEN [st EXCEPT !.pending = rest,
                            !.file = @ \o SubSeq(bytes, 1, Min(part, Len(bytes) - 1)),
                            !.io_err = TRUE]
            ELSE FlushLoop(
                   [st EXCEPT !.pending = rest,
                              !.file = @ \o bytes,
                              !.downloaded = @ + Len(bytes),
                              !.progress = ProgressDraw(
                                  ProgressSet(@, st.downloaded + Len(bytes)), FALSE),
                              !.events = Append(@, DrawEvent(FALSE,
                                  ProgressSet(st.progress, st.downloaded + Len(bytes)),
                                  Len(st.file) + Len(bytes), st.requested)),
                              !.next = @ + 1],
                   IF failAt = 0 THEN 0 ELSE failAt - 1, part)

\* how many chunks the flush loop would write from this state
RECURSIVE FlushCount(_, _)
FlushCount(pend, nx) == IF nx \in DOMAIN pend THEN 1 + FlushCount(pend, nx + 1) ELSE 0

\* an Err message that is not propagated
IsErrMsgNever(msg) == FALSE

\* lib.rs:297: `msg?` leaves the function on an Err message
IsErrMsg(msg) == ~msg.ok

\* lib.rs:293-312: the recv branch with a message
Recv ==
    /\ pc = "par_loop"
    /\ ~EventsChannelFull(Len(events) - received)
    /\ chan # <<>>
    /\ LET msg == Head(chan) IN
       IF IsErrMsg(msg)
       THEN /\ Return(msg.err)
            /\ UNCHANGED <<next, pending, downloaded, progress, file, arrived, events>>
       ELSE LET ins == MapInsert(pending, msg.idx, msg.bytes)
                st0 == [next |-> next, pending |-> ins, file |-> file.bytes,
                        downloaded |-> downloaded, progress |-> progress,
                        events |-> events,
                        requested |-> ByteRequests(wholeGets, rangeReqs),
                        io_err |-> FALSE]
            IN \E failAt \in 0..FlushCount(ins, next), part \in 0..(MaxSize + 1) :
                  /\ (failAt = 0 => part = 0)
                  /\ (failAt > 0 => part < Len(ins[next + failAt - 1]))
                  /\ arrived' = Append(arrived, msg.idx)
                  /\ LET st == FlushLoop(st0, failAt, part) IN
                     /\ next' = st.next
                     /\ pending' = st.pending
                     /\ downloaded' = st.downloaded
                     /\ progress' = st.progress
                     /\ events' = st.events
                     /\ file' = [file EXCEPT !.bytes = st.file]
                     /\ IF st.io_err
                        THEN Return(Err("Io", "writing output file"))
                        ELSE /\ chan' = Tail(chan)
                             /\ UNCHANGED <<pc, result, rxOpen>>
    /\ UNCHANGED <<resLen, connections, size, accepts_ranges, total_size, workers,
                   chunk_size, task, senders, ss_total, bodyPos, heads, wholeGets,
                   rangeReqs>>
    /\ UNCHANGED <<kwVars, cdVars, obVars, ckVars, clVars, agVars>>

\* a loop that takes an empty channel for a closed one, while tasks still hold Senders
RecvClosedEarly ==
    /\ pc = "par_loop"
    /\ ~EventsChannelFull(Len(events) - received)
    /\ chan = <<>>
    /\ progress' = ProgressDraw(progress, TRUE)
    /\ events' = Append(events, DrawEvent(TRUE, progress', Len(file.bytes),
                                              ByteRequests(wholeGets, rangeReqs)))
    /\ Return(Ok)
    /\ UNCHANGED <<resLen, connections, size, accepts_ranges, total_size, workers,
                   chunk_size, task, senders, next, pending, downloaded, file,
                   arrived, ss_total, bodyPos, heads, wholeGets, rangeReqs>>
    /\ UNCHANGED <<kwVars, cdVars, obVars, ckVars, clVars, agVars>>

\* lib.rs:294-296, 319-321: recv() yields None once every Sender is gone
RecvClosed ==
    /\ pc = "par_loop"
    /\ ~EventsChannelFull(Len(events) - received)
    /\ chan = <<>>
    /\ senders = 0
    /\ progress' = ProgressDraw(progress, TRUE)
    /\ events' = Append(events, DrawEvent(TRUE, progress', Len(file.bytes),
                                              ByteRequests(wholeGets, rangeReqs)))
    /\ Return(Ok)
    /\ UNCHANGED <<resLen, connections, size, accepts_ranges, total_size, workers,
                   chunk_size, task, senders, next, pending, downloaded, file,
                   arrived, ss_total, bodyPos, heads, wholeGets, rangeReqs>>
    /\ UNCHANGED <<kwVars, cdVars, obVars, ckVars, clVars, agVars>>

\* lib.rs:313-315: the ticker branch; `biased` polls recv first, so it runs only
\* when recv is not ready
Tick ==
    /\ pc = "par_loop"
    /\ ~EventsChannelFull(Len(events) - received)
    /\ chan = <<>>
    /\ senders > 0
    /\ progress.spinner_step - next < MaxTicks
    /\ progress' = ProgressDraw(progress, FALSE)
    /\ events' = Append(events, DrawEvent(FALSE, progress', Len(file.bytes),
                                              ByteRequests(wholeGets, rangeReqs)))
    /\ UNCHANGED <<pc, result, resLen, connections, size, accepts_ranges, total_size,
                   workers, chunk_size, task, chan, senders, rxOpen, next, pending, arrived,
                   downloaded, file, ss_total, bodyPos, heads, wholeGets, rangeReqs>>
    /\ UNCHANGED <<kwVars, cdVars, obVars, ckVars, clVars, agVars>>

(* ------------------------ fetch_chunk(), lib.rs:442-476 ---------------- *)
\* what one Range GET can come back as
FetchOutcomes(idx, start, end, total) ==
    { \* send() fails (lib.rs:455-458)
      ErrRes(idx, Err("Request", "downloading chunk")),
      \* a status that is neither 206 nor a success (lib.rs:460-465)
      ErrRes(idx, Err("HttpStatus", "downloading chunk")),
      \* bytes() fails (lib.rs:470-473)
      ErrRes(idx, Err("Request", "reading chunk")),
      \* 206 with the requested range
      OkRes(idx, Slice(start, end)),
      \* 200: the server ignored Range and sent the whole resource
      OkRes(idx, Resource(total)) }

\* lib.rs:269: the spawned task runs fetch_chunk
FetchChunk(idx) ==
    /\ task[idx].st = "spawned"
    /\ rangeReqs' = rangeReqs (+) SetToBag({<<task[idx].start, task[idx].end>>})
    /\ \E r \in FetchOutcomes(idx, task[idx].start, task[idx].end, total_size) :
          task' = [task EXCEPT ![idx].st = "fetched", ![idx].res = r]
    /\ UNCHANGED <<pc, result, resLen, connections, size, accepts_ranges, total_size,
                   workers, chunk_size, chan, senders, rxOpen, next, pending, arrived,
                   downloaded, progress, file, ss_total, bodyPos, heads, wholeGets, events>>
    /\ UNCHANGED <<kwVars, cdVars, obVars, ckVars, clVars, agVars>>

\* a send that keeps waiting for room after the Receiver is gone instead of failing
SendResultWaitsWhenClosed(idx) ==
    /\ task[idx].st = "fetched"
    /\ rxOpen
    /\ Len(chan) < workers
    /\ chan' = Append(chan, task[idx].res)
    /\ task' = [task EXCEPT ![idx].st = "done"]
    /\ senders' = senders - 1
    /\ UNCHANGED <<pc, result, resLen, connections, size, accepts_ranges, total_size,
                   workers, chunk_size, rxOpen, next, pending, arrived, downloaded, progress,
                   file, ss_total, bodyPos, heads, wholeGets, rangeReqs, events>>
    /\ UNCHANGED <<kwVars, cdVars, obVars, ckVars, clVars, agVars>>

\* lib.rs:270: `let _ = tx.send(result).await`, then the task ends and drops its tx.
\* send waits while the channel is full and fails once the Receiver is gone.
SendResult(idx) ==
    /\ task[idx].st = "fetched"
    /\ IF rxOpen
       THEN /\ Len(chan) < workers
            /\ chan' = Append(chan, task[idx].res)
       ELSE UNCHANGED chan
    /\ task' = [task EXCEPT ![idx].st = "done"]
    /\ senders' = senders - 1
    /\ UNCHANGED <<pc, result, resLen, connections, size, accepts_ranges, total_size,
                   workers, chunk_size, rxOpen, next, pending, arrived, downloaded, progress,
                   file, ss_total, bodyPos, heads, wholeGets, rangeReqs, events>>
    /\ UNCHANGED <<kwVars, cdVars, obVars, ckVars, clVars, agVars>>

\* the headers the engine puts on its requests: the HEAD probe (lib.rs:45-48) and the
\* whole-resource GET (lib.rs:187-189) are built from the url alone, a chunk GET adds
\* Range (lib.rs:449-453); Client::new() has no default headers (lib.rs:43)
HeadHeaders == {}
GetHeaders == {}
RangeHeaders(start, end) == {<<"Range", <<start, end>>>>}
\* the requests issued so far, each with its headers
IssuedRequests ==
    {[method |-> "HEAD", headers |-> HeadHeaders] : n \in 1..heads}
    \cup {[method |-> "GET", headers |-> GetHeaders] : n \in 1..wholeGets}
    \cup {[method |-> "GET", headers |-> RangeHeaders(r[1], r[2])] : r \in BagToSet(rangeReqs)}

(* ================ the caller's event loop, cli/src/app.rs =============== *)
\* progress.rs:29-40 (started: started_at is Some)
RendererNew(enabled) ==
    [enabled |-> enabled, initialized |-> FALSE, spinner_step |-> 0, started |-> FALSE,
     downloaded |-> 0, finished |-> FALSE, total |-> NoneU64, status |-> "Waiting"]

\* progress.rs:88-118: draw_current and the part of draw_frame that changes state
DrawCurrent(r) ==
    [r EXCEPT !.initialized = TRUE,
              !.spinner_step = IF r.finished THEN @ ELSE @ + 1]

\* a handler that takes the end for progress
HandleNoFinish(r, event) ==
    IF ~r.enabled THEN r
    ELSE IF event.kind = "Started"
    THEN DrawCurrent([r EXCEPT !.total = event.total_bytes, !.downloaded = 0,
                               !.finished = FALSE, !.started = TRUE,
                               !.status = "Waiting"])
    ELSE DrawCurrent([r EXCEPT !.total = event.total_bytes,
                               !.downloaded = event.downloaded_bytes,
                               !.started = TRUE, !.finished = FALSE,
                               !.status = "Downloading"])

\* progress.rs:42-79: DownloadProgressRenderer::handle
Handle(r, event) ==
    IF ~r.enabled THEN r
    ELSE CASE event.kind = "Started" ->
                DrawCurrent([r EXCEPT !.total = event.total_bytes, !.downloaded = 0,
                                      !.finished = FALSE, !.started = TRUE,
                                      !.status = "Waiting"])
           [] event.kind = "Progress" ->
                DrawCurrent([r EXCEPT !.total = event.total_bytes,
                                      !.downloaded = event.downloaded_bytes,
                                      !.started = TRUE, !.finished = FALSE,
                                      !.status = "Downloading"])
           [] event.kind = "Finished" ->
                DrawCurrent([r EXCEPT !.downloaded = event.downloaded_bytes,
                                      !.started = TRUE, !.finished = TRUE,
                                      !.status = "Done"])

\* progress.rs:81-86: DownloadProgressRenderer::tick
RendererTick(r) ==
    IF ~r.enabled \/ r.finished \/ ~r.started THEN r ELSE DrawCurrent(r)

\* a drain that takes one event from the channel and leaves the rest
HandleAllOnce(r, evs) ==
    IF evs = <<>> THEN r ELSE Handle(r, Head(evs))

\* app.rs:218-220: `while let Ok(event) = events_rx.try_recv()`
RECURSIVE HandleAll(_, _)
HandleAll(r, evs) ==
    IF evs = <<>> THEN r ELSE HandleAll(Handle(r, Head(evs)), Tail(evs))

\* the events sent and not yet received
Queued == SubSeq(events, received + 1, Len(events))

\* the draws of the renderer that no event caused
TickDraws == progress_renderer.spinner_step
                 - Cardinality({i \in 1..received : events[i].kind # "Finished"})

\* no event loop runs
ObIdle ==
    /\ opc = "idle"
    /\ received = 0
    /\ progress_renderer = RendererNew(FALSE)
    /\ download_result = Running
    /\ drained = 0

\* app.rs:192-203: the renderer (enabled from the log level), the channel, the future
ObInit ==
    /\ opc = "loop"
    /\ received = 0
    /\ \E enabled \in BOOLEAN : progress_renderer = RendererNew(enabled)
    /\ download_result = Running
    /\ drained = 0

\* app.rs:206: the download future is ready, the loop breaks with its result
LoopBreak ==
    /\ opc = "loop"
    /\ pc = "done"
    /\ download_result' = result
    /\ opc' = "drain"
    /\ UNCHANGED <<received, progress_renderer, drained>>
    /\ UNCHANGED <<dlVars, kwVars, cdVars, ckVars, clVars, agVars>>

\* app.rs:207-211: an event is received and handled
LoopEvent ==
    /\ opc = "loop"
    /\ received < Len(events)
    /\ received' = received + 1
    /\ progress_renderer' = Handle(progress_renderer, events[received + 1])
    /\ UNCHANGED <<opc, download_result, drained>>
    /\ UNCHANGED <<dlVars, kwVars, cdVars, ckVars, clVars, agVars>>

\* app.rs:212-214: the 80 ms tick; a tick that draws nothing leaves no trace
LoopTick ==
    /\ opc = "loop"
    /\ RendererTick(progress_renderer) # progress_renderer
    /\ TickDraws < MaxTicks
    /\ progress_renderer' = RendererTick(progress_renderer)
    /\ UNCHANGED <<opc, received, download_result, drained>>
    /\ UNCHANGED <<dlVars, kwVars, cdVars, ckVars, clVars, agVars>>

\* app.rs:218-222: what is left in the channel is handled, then the result is used
Drain ==
    /\ opc = "drain"
    /\ progress_renderer' = HandleAll(progress_renderer, Queued)
    /\ received' = Len(events)
    /\ drained' = Len(Queued)
    /\ opc' = "done"
    /\ UNCHANGED download_result
    /\ UNCHANGED <<dlVars, kwVars, cdVars, ckVars, clVars, agVars>>

(* ==================== mirror resolver, kwik.rs ========================= *)
\* the retry budget extract_kwik_link hands to fetch_kwik_dlink (kwik.rs:380)
RetryBudget == 5

\* a URL, kept as the parts the code looks at: "https://<host>/<seg>/<id>"
Link(host, seg, id) == [host |-> host, seg |-> seg, id |-> id]
NoLink == Link("", "", "")
PaheLinks == {Link("pahe.win", "", "x")}
\* quoted "https://kwik.<tld>/<seg>/<rest>" URLs a page or a decoded document can hold
KwikUrls == {Link("kwik.cx", "f", "a"), Link("kwik.cx", "d", "b")}
\* form action URLs a decoded document can hold
ActionUrls == {Link("kwik.cx", "d", "p")}
\* Location values of the POST response
Locations == {Link("cdn.example", "", "file")}
Tokens == {"tok"}
\* error bodies: a plain one, and an anti-bot challenge page
ErrorTexts == {"denied", "<title>DDoS-Guard</title>"}
\* kwik.rs:197, 242, 331
FailedBody == "<failed to read error body>"

\* kwik.rs:374  String::replace("/d/", "/f/")
ReplaceDF(l) == IF l.seg = "d" THEN [l EXCEPT !.seg = "f"] ELSE l

\* a decoded document, as the three pattern matches of extract_link_and_token and
\* kwik_direct_re see it: the form action, the first quoted kwik URL, the _token value
Docs == [form : ActionUrls \cup {NoLink}, anchor : KwikUrls \cup {NoLink},
         token : Tokens \cup {""}]
NoDoc == [form |-> NoLink, anchor |-> NoLink, token |-> ""]

\* what packed_re captured (kwik.rs:262-264, 350-352): whether the offset and base
\* digits parse as i64 / usize, the number of characters of the alphabet key, the
\* base, and the document the encoded text decodes to; the encoded text is not
\* empty and its tokens are short (the arithmetic of the decoder is modelled on its
\* own below, decode_js_style)
NoPayload == [present |-> FALSE, offset_ok |-> TRUE, base_ok |-> TRUE, key_len |-> 0,
              base |-> 0, doc |-> NoDoc]
Payloads ==
    \* the offset digits do not fit i64, or the base digits do not fit usize
    { [NoPayload EXCEPT !.present = TRUE, !.offset_ok = FALSE, !.key_len = 2, !.base = 1],
      [NoPayload EXCEPT !.present = TRUE, !.base_ok = FALSE, !.key_len = 2, !.base = 1],
    \* the alphabet key has no character at index base
      [NoPayload EXCEPT !.present = TRUE, !.key_len = 2, !.base = 2],
    \* a key of 66 characters and base 65: more digits than base_alphabet has
      [NoPayload EXCEPT !.present = TRUE, !.key_len = 66, !.base = 65] }
    \* a payload that decodes to a document
    \cup { [NoPayload EXCEPT !.present = TRUE, !.key_len = 2, !.base = 1, !.doc = d] :
              d \in Docs }

\* responses to a page GET: the request can fail, the status can be anything, the
\* body can fail to read; a read body holds a direct link, a packed payload, both or
\* neither
GetStatuses == {200, 302, 403}
NoResponse == [sent |-> FALSE, status |-> 0, text_ok |-> FALSE, text |-> "",
               direct |-> NoLink, packed |-> NoPayload, loc |-> "absent",
               location |-> NoLink]
PageResponses ==
    {NoResponse}
    \cup { [NoResponse EXCEPT !.sent = TRUE, !.status = st, !.text_ok = ok,
                               !.text = IF ok THEN t ELSE ""] :
              st \in {x \in GetStatuses : x # 200}, ok \in BOOLEAN, t \in ErrorTexts }
    \cup { [NoResponse EXCEPT !.sent = TRUE, !.status = 200] }
    \cup { [NoResponse EXCEPT !.sent = TRUE, !.status = 200, !.text_ok = TRUE,
                               !.direct = d, !.packed = p] :
              d \in KwikUrls \cup {NoLink}, p \in Payloads \cup {NoPayload} }
\* responses to the GET of a mirror page: fetch_kwik_dlink never looks for a plain
\* mirror URL (kwik.rs:262-271), so one is only told apart on a page without payload
MirrorResponses == { r \in PageResponses : r.packed.present => r.direct = NoLink }
\* the Location header of a response: absent, present with bytes that are not
\* visible ASCII ("opaque", HeaderValue::to_str fails), or present as text; a text
\* value can be the empty string, which is NoLink
LocationHeaders ==
    { [loc |-> "absent", location |-> NoLink] }
    \cup { [loc |-> "opaque", location |-> l] : l \in Locations }
    \cup { [loc |-> "text", location |-> l] : l \in Locations \cup {NoLink} }
\* responses to the form POST
PostStatuses == {200, 301, 302, 403}
PostResponses ==
    {NoResponse}
    \cup { [NoResponse EXCEPT !.sent = TRUE, !.status = st, !.text_ok = ok,
                               !.text = IF ok THEN t ELSE "", !.loc = h.loc,
                               !.location = h.location] :
              st \in PostStatuses, ok \in BOOLEAN, t \in ErrorTexts,
              h \in LocationHeaders }

\* Result<DirectLink>: Ok(DirectLink) or a KwikError (errors.rs:5-65)
KRunning == [kind |-> "none", context |-> "", status |-> 0, body |-> "",
             link |-> NoLink, referer |-> NoLink, direct_link |-> NoLink]
KErr(kind, context) == [KRunning EXCEPT !.kind = kind, !.context = context]
KHttpStatus(context, status, body) ==
    [KRunning EXCEPT !.kind = "HttpStatus", !.context = context, !.status = status,
                     !.body = body]
KRetryLimitExceeded(link) == [KRunning EXCEPT !.kind = "RetryLimitExceeded", !.link = link]
KOk(referer, direct_link) ==
    [KRunning EXCEPT !.kind = "Ok", !.referer = referer, !.direct_link = direct_link]

\* a status test that lets redirections through
IsSuccessOrRedirect(status) == status >= 200 /\ status <= 399

\* StatusCode::is_success
IsSuccess(status) == status >= 200 /\ status <= 299

\* kwik.rs:194-197, 239-242, 328-331: resp.text() or the placeholder
ErrorBody(resp) == IF resp.text_ok THEN resp.text ELSE FailedBody

\* kwik.rs:87-121 decode_js_style: the sentinel is the character at index `base` of
\* the alphabet key; a key too short for it is InvalidAlphabetBaseIndex; with a
\* sentinel and a base above 64, decode_base slices base_alphabet past its end and
\* the thread panics (kwik.rs:57)
DecodeJsStyle(payload) ==
    IF ~(payload.base < payload.key_len)
    THEN [ok |-> FALSE, panic |-> FALSE, err |-> KErr("InvalidAlphabetBaseIndex", ""),
          doc |-> NoDoc]
    ELSE IF payload.base > 64
    THEN [ok |-> FALSE, panic |-> TRUE, err |-> KRunning, doc |-> NoDoc]
    ELSE [ok |-> TRUE, panic |-> FALSE, err |-> KRunning, doc |-> payload.doc]

\* an extraction that prefers the quoted kwik URL over the form action
ExtractLinkAndTokenAnchorFirst(doc) ==
    LET link == IF doc.anchor # NoLink THEN doc.anchor ELSE doc.form IN
    IF link = NoLink
    THEN [ok |-> FALSE, err |-> KErr("MissingKwikPostLink", ""), link |-> NoLink, token |-> ""]
    ELSE IF doc.token = ""
    THEN [ok |-> FALSE, err |-> KErr("MissingToken", ""), link |-> NoLink, token |-> ""]
    ELSE [ok |-> TRUE, err |-> KRunning, link |-> link, token |-> doc.token]

\* kwik.rs:139-166 extract_link_and_token: the form action is preferred, the quoted
\* kwik URL is the fallback, and the token is looked up after the link
ExtractLinkAndToken(doc) ==
    LET link == IF doc.form # NoLink THEN doc.form ELSE doc.anchor IN
    IF link = NoLink
    THEN [ok |-> FALSE, err |-> KErr("MissingKwikPostLink", ""), link |-> NoLink, token |-> ""]
    ELSE IF doc.token = ""
    THEN [ok |-> FALSE, err |-> KErr("MissingToken", ""), link |-> NoLink, token |-> ""]
    ELSE [ok |-> TRUE, err |-> KRunning, link |-> link, token |-> doc.token]

Fatal(err) == [class |-> "fatal", err |-> err, link |-> NoLink, token |-> ""]
Retry(err) == [class |-> "retry", err |-> err, link |-> NoLink, token |-> ""]
Found(link, token) == [class |-> "found", err |-> KRunning, link |-> link, token |-> token]
\* the call does not return: the thread unwinds
Panicked == [class |-> "panic", err |-> KRunning, link |-> NoLink, token |-> ""]

\* kwik.rs:316-378: what extract_kwik_link makes of the response to GET pahe_link
PaheOutcome(resp) ==
    IF ~resp.sent THEN Fatal(KErr("Request", "loading pahe link"))
    ELSE IF ~IsSuccess(resp.status)
    THEN Fatal(KHttpStatus("pahe link", resp.status, ErrorBody(resp)))
    ELSE IF ~resp.text_ok THEN Fatal(KErr("ResponseBody", "reading pahe body"))
    ELSE IF resp.direct # NoLink THEN Found(resp.direct, "")
    ELSE IF resp.packed.present
    THEN IF ~resp.packed.offset_ok THEN Fatal(KErr("InvalidOffset", ""))
         ELSE IF ~resp.packed.base_ok THEN Fatal(KErr("InvalidBase", ""))
         ELSE LET dec == DecodeJsStyle(resp.packed) IN
              IF dec.panic THEN Panicked
              ELSE IF ~dec.ok THEN Fatal(dec.err)
              ELSE IF dec.doc.anchor # NoLink
              THEN Found(ReplaceDF(dec.doc.anchor), "")
              ELSE Fatal(KErr("MissingKwikLink", ""))
    ELSE Fatal(KErr("MissingKwikLink", ""))

\* a fetch_kwik_dlink that propagates a decode failure with `?` instead of retrying
DlinkOutcomeDecodeFatal(resp) ==
    IF ~resp.sent THEN Fatal(KErr("Request", "loading kwik page"))
    ELSE IF ~IsSuccess(resp.status)
    THEN Fatal(KHttpStatus("kwik page", resp.status, ErrorBody(resp)))
    ELSE IF ~resp.text_ok THEN Fatal(KErr("ResponseBody", "reading kwik page body"))
    ELSE IF ~resp.packed.present THEN Retry(KErr("PayloadNotFound", ""))
    ELSE IF ~resp.packed.offset_ok THEN Fatal(KErr("InvalidOffset", ""))
    ELSE IF ~resp.packed.base_ok THEN Fatal(KErr("InvalidBase", ""))
    ELSE LET dec == DecodeJsStyle(resp.packed) IN
         IF dec.panic THEN Panicked
         ELSE IF ~dec.ok THEN Fatal(dec.err)
         ELSE LET ext == ExtractLinkAndToken(dec.doc) IN
              IF ~ext.ok THEN Retry(ext.err)
              ELSE Found(ext.link, ext.token)

\* a fetch_kwik_dlink that gives up with MissingKwikLink on a page without payload
DlinkOutcomeBareFatal(resp) ==
    IF ~resp.sent THEN Fatal(KErr("Request", "loading kwik page"))
    ELSE IF ~IsSuccess(resp.status)
    THEN Fatal(KHttpStatus("kwik page", resp.status, ErrorBody(resp)))
    ELSE IF ~resp.text_ok THEN Fatal(KErr("ResponseBody", "reading kwik page body"))
    ELSE IF ~resp.packed.present THEN Fatal(KErr("MissingKwikLink", ""))
    ELSE IF ~resp.packed.offset_ok THEN Fatal(KErr("InvalidOffset", ""))
    ELSE IF ~resp.packed.base_ok THEN Fatal(KErr("InvalidBase", ""))
    ELSE LET dec == DecodeJsStyle(resp.packed) IN
         IF dec.panic THEN Panicked
         ELSE IF ~dec.ok THEN Retry(dec.err)
         ELSE LET ext == ExtractLinkAndToken(dec.doc) IN
              IF ~ext.ok THEN Retry(ext.err)
              ELSE Found(ext.link, ext.token)

\* kwik.rs:223-310: what fetch_kwik_dlink makes of the response to GET kwik_link
DlinkOutcome(resp) ==
    IF ~resp.sent THEN Fatal(KErr("Request", "loading kwik page"))
    ELSE IF ~IsSuccess(resp.status)
    THEN Fatal(KHttpStatus("kwik page", resp.status, ErrorBody(resp)))
    ELSE IF ~resp.text_ok THEN Fatal(KErr("ResponseBody", "reading kwik page body"))
    ELSE IF ~resp.packed.present THEN Retry(KErr("PayloadNotFound", ""))
    ELSE IF ~resp.packed.offset_ok THEN Fatal(KErr("InvalidOffset", ""))
    ELSE IF ~resp.packed.base_ok THEN Fatal(KErr("InvalidBase", ""))
    ELSE LET dec == DecodeJsStyle(resp.packed) IN
         IF dec.panic THEN Panicked
         ELSE IF ~dec.ok THEN Retry(dec.err)
         ELSE LET ext == ExtractLinkAndToken(dec.doc) IN
              IF ~ext.ok THEN Retry(ext.err)
              ELSE Found(ext.link, ext.token)

\* a status test that accepts every redirection
IsRedirection(status) == status >= 300 /\ status <= 399

\* kwik.rs:192  the only status fetch_kwik_direct accepts
IsFound302(status) == status = 302

\* a Location read that converts the header bytes lossily instead of giving up
ReadLocationLossy(resp) ==
    [some |-> resp.loc # "absent", v |-> resp.location]

\* kwik.rs:205-208  headers().get(LOCATION).and_then(|h| h.to_str().ok())
ReadLocation(resp) ==
    IF resp.loc = "text" THEN [some |-> TRUE, v |-> resp.location]
    ELSE [some |-> FALSE, v |-> NoLink]

\* kwik.rs:187-212: what fetch_kwik_direct makes of the response to the POST
DirectOutcome(resp) ==
    IF ~resp.sent THEN Fatal(KErr("Request", "posting kwik direct link form"))
    ELSE IF ~IsFound302(resp.status)
    THEN Fatal(KHttpStatus("kwik direct-link post", resp.status, ErrorBody(resp)))
    ELSE LET location == ReadLocation(resp) IN
         IF ~location.some THEN Fatal(KErr("MissingRedirectLocation", ""))
         ELSE Found(location.v, "")

\* a DirectLink whose referer is the URL the form was posted to
DirectLinkPosted(kwikLink, postLink, location) == KOk(postLink, location)

\* kwik.rs:380-385  DirectLink { referer: kwik_link, direct_link }: the referer is
\* the mirror page link extract_kwik_link found, not the link the form went to
DirectLinkOf(kwikLink, postLink, location) == KOk(kwikLink, location)

\* a budget test that lets one more call through
BudgetExhaustedLate(r) == r = -1

\* a budget test that gives up one call early
BudgetExhaustedEarly(r) == r <= 1

\* kwik.rs:217  the budget test at the head of fetch_kwik_dlink
BudgetExhausted(r) == r = 0

Request(method, client, url) == [method |-> method, client |-> client, url |-> url]
\* what the histories keep of a response: whether it came, its status, its body
\* text, whether the body held a plain mirror URL or a packed payload, its Location
Seen(resp) == [sent |-> resp.sent, status |-> resp.status, text_ok |-> resp.text_ok,
               text |-> resp.text, has_direct |-> resp.direct # NoLink,
               has_packed |-> resp.packed.present, loc |-> resp.loc,
               location |-> resp.location]
NoResp == [sent |-> FALSE, status |-> -1, text_ok |-> FALSE, text |-> "",
           has_direct |-> FALSE, has_packed |-> FALSE, loc |-> "absent",
           location |-> NoLink]

KwInit ==
    /\ kpc = "extract"
    /\ kresult = KRunning
    /\ pahe_link \in PaheLinks
    /\ kwik_link = NoLink
    /\ retries = 0
    /\ attempts = <<>>
    /\ paheResp = NoResp
    /\ postTarget = [link |-> NoLink, token |-> ""]
    /\ postResp = NoResp
    /\ reqLog = <<>>

\* extract_kwik_link returns
KReturn(r) ==
    /\ kpc' = "done"
    /\ kresult' = r

\* kwik.rs:314-380: the pahe page GET, the search for the mirror link, and the call
\* of fetch_kwik_dlink with the budget
ExtractKwikLink ==
    /\ kpc = "extract"
    /\ \E resp \in PageResponses :
          LET out == PaheOutcome(resp) IN
          /\ reqLog' = Append(reqLog, Request("GET", "client", pahe_link))
          /\ paheResp' = Seen(resp)
          /\ CASE out.class = "found" ->
                    /\ kwik_link' = out.link
                    /\ retries' = RetryBudget
                    /\ kpc' = "dlink"
                    /\ UNCHANGED kresult
               [] out.class = "panic" ->
                    /\ kpc' = "panic"
                    /\ UNCHANGED <<kresult, kwik_link, retries>>
               [] OTHER ->
                    /\ KReturn(out.err)
                    /\ UNCHANGED <<kwik_link, retries>>
    /\ UNCHANGED <<pahe_link, attempts, postTarget, postResp>>
    /\ UNCHANGED <<dlVars, cdVars, obVars, ckVars, clVars, agVars>>

\* kwik.rs:215-310: one call of fetch_kwik_dlink(kwik_link, retries)
FetchKwikDlink ==
    /\ kpc = "dlink"
    /\ IF BudgetExhausted(retries)
       THEN /\ KReturn(KRetryLimitExceeded(kwik_link))
            /\ UNCHANGED <<retries, attempts, postTarget, reqLog>>
       ELSE \E resp \in MirrorResponses :
               LET out == DlinkOutcome(resp) IN
               /\ reqLog' = Append(reqLog, Request("GET", "client", kwik_link))
               /\ attempts' = Append(attempts,
                     [retries |-> retries, resp |-> Seen(resp),
                      outcome |-> CASE out.class = "found" -> "Found"
                                    [] out.class = "panic" -> "panic"
                                    [] OTHER -> out.err.kind])
               /\ CASE out.class = "retry" ->
                         \* the recursive call with retries - 1 (kwik.rs:270, 293, 306)
                         /\ retries' = retries - 1
                         /\ UNCHANGED <<kpc, kresult, postTarget>>
                    [] out.class = "found" ->
                         /\ postTarget' = [link |-> out.link, token |-> out.token]
                         /\ kpc' = "post"
                         /\ UNCHANGED <<kresult, retries>>
                    [] out.class = "fatal" ->
                         /\ KReturn(out.err)
                         /\ UNCHANGED <<retries, postTarget>>
                    [] out.class = "panic" ->
                         /\ kpc' = "panic"
                         /\ UNCHANGED <<kresult, retries, postTarget>>
    /\ UNCHANGED <<pahe_link, kwik_link, paheResp, postResp>>
    /\ UNCHANGED <<dlVars, cdVars, obVars, ckVars, clVars, agVars>>

\* kwik.rs:168-213 fetch_kwik_direct, and the DirectLink built from its value
\* (kwik.rs:380-385)
FetchKwikDirect ==
    /\ kpc = "post"
    /\ \E resp \in PostResponses :
          LET out == DirectOutcome(resp) IN
          /\ reqLog' = Append(reqLog, Request("POST", "no_redirect_client", postTarget.link))
          /\ postResp' = Seen(resp)
          /\ IF out.class = "found"
             THEN KReturn(DirectLinkOf(kwik_link, postTarget.link, out.link))
             ELSE KReturn(out.err)
    /\ UNCHANGED <<pahe_link, kwik_link, retries, attempts, paheResp, postTarget>>
    /\ UNCHANGED <<dlVars, cdVars, obVars, ckVars, clVars, agVars>>

(* ================== packed payload codec, kwik.rs ====================== *)
\* kwik.rs:51  base_alphabet; a string is a sequence of one-character strings
BaseAlphabet ==
    <<"0", "1", "2", "3", "4", "5", "6", "7", "8", "9",
      "a", "b", "c", "d", "e", "f", "g", "h", "i", "j", "k", "l", "m",
      "n", "o", "p", "q", "r", "s", "t", "u", "v", "w", "x", "y", "z",
      "A", "B", "C", "D", "E", "F", "G", "H", "I", "J", "K", "L", "M",
      "N", "O", "P", "Q", "R", "S", "T", "U", "V", "W", "X", "Y", "Z",
      "+", "/">>
DecimalDigits == SubSeq(BaseAlphabet, 1, 10)

\* i64 and usize, at the modelled width
I64Max == 2^(IntBits - 1) - 1
I64Min == -(2^(IntBits - 1))
UsizeMax == 2^IntBits - 1
WrapI64(n) == ((n - I64Min) % 2^IntBits) + I64Min

\* the value of an integer operation: a number, or a panic
I64Ok(v) == [kind |-> "ok", v |-> v]
I64Panic == [kind |-> "panic", v |-> 0]
\* +, * and pow on i64: out of range they panic with overflow checks on (the dev
\* profile) and wrap with them off (the release profile)
Arith(n, checks) ==
    IF n >= I64Min /\ n <= I64Max THEN I64Ok(n)
    ELSE IF checks THEN I64Panic
    ELSE I64Ok(WrapI64(n))

RECURSIVE PowI64(_, _, _)
\* kwik.rs:62  (from_base as i64).pow(idx as u32)
PowI64(b, e, checks) ==
    IF e = 0 THEN I64Ok(1)
    ELSE LET p == PowI64(b, e - 1, checks) IN
         IF p.kind = "panic" THEN p ELSE Arith(p.v * b, checks)

\* str::find(char) on an ASCII string: the index of the first occurrence
Find(text, ch) ==
    IF \E i \in DOMAIN text : text[i] = ch
    THEN [some |-> TRUE,
          v |-> (CHOOSE i \in DOMAIN text :
                    text[i] = ch /\ \A j \in 1..(i - 1) : text[j] # ch) - 1]
    ELSE [some |-> FALSE, v |-> 0]

\* the value of a decode step: a number or a text, an error, or a panic
DecOk(v, out) == [kind |-> "ok", v |-> v, out |-> out, err |-> ""]
DecErr(err) == [kind |-> "err", v |-> 0, out |-> <<>>, err |-> err]
DecPanic == [kind |-> "panic", v |-> 0, out |-> <<>>, err |-> ""]
NoDecoded == [kind |-> "none", v |-> 0, out |-> <<>>, err |-> ""]

RECURSIVE ParseDecimal(_, _)
\* str::parse::<i64> of a text without sign: Err on an empty text, on a character
\* that is no decimal digit and on a value above i64::MAX
ParseDecimal(text, acc) ==
    IF text = <<>> THEN DecOk(acc, <<>>)
    ELSE LET dg == Find(DecimalDigits, Head(text)) IN
         IF ~dg.some THEN DecErr("ParseInt")
         ELSE IF acc * 10 + dg.v > I64Max THEN DecErr("ParseInt")
         ELSE ParseDecimal(Tail(text), acc * 10 + dg.v)
ParseI64(text) == IF text = <<>> THEN DecErr("ParseInt") ELSE ParseDecimal(text, 0)

RECURSIVE Render(_, _)
\* kwik.rs:75-82  the digits of v in to_base, most significant first; nothing for
\* v <= 0
Render(v, to_base) ==
    IF v > 0
    THEN Append(Render(v \div to_base, to_base), BaseAlphabet[(v % to_base) + 1])
    ELSE <<>>

RECURSIVE SumDigitsFirstFound(_, _, _, _, _)
\* a digit sum that gives a character outside the alphabet the value of digit 1
SumDigitsFirstFound(input, from_base, idx, value, checks) ==
    IF idx = Len(input) THEN I64Ok(value)
    ELSE LET pos == Find(SubSeq(BaseAlphabet, 1, from_base), input[Len(input) - idx])
             pw == PowI64(WrapI64(from_base), idx, checks)
             term == IF pw.kind = "panic" THEN pw
                     ELSE Arith((IF pos.some THEN pos.v ELSE 1) * pw.v, checks)
             sum == IF term.kind = "panic" THEN term
                    ELSE Arith(value + term.v, checks) IN
         IF sum.kind = "panic" THEN sum
         ELSE SumDigitsFirstFound(input, from_base, idx + 1, sum.v, checks)

RECURSIVE SumDigits(_, _, _, _, _)
\* kwik.rs:60-65  value += pos * from_base^idx over the characters from the right;
\* a character that is not among the first from_base of the alphabet adds nothing
SumDigits(input, from_base, idx, value, checks) ==
    IF idx = Len(input) THEN I64Ok(value)
    ELSE LET pos == Find(SubSeq(BaseAlphabet, 1, from_base), input[Len(input) - idx]) IN
         IF ~pos.some THEN SumDigits(input, from_base, idx + 1, value, checks)
         ELSE LET pw == PowI64(WrapI64(from_base), idx, checks)
                  term == IF pw.kind = "panic" THEN pw ELSE Arith(pos.v * pw.v, checks)
                  sum == IF term.kind = "panic" THEN term
                         ELSE Arith(value + term.v, checks) IN
              IF sum.kind = "panic" THEN sum
              ELSE SumDigits(input, from_base, idx + 1, sum.v, checks)

\* kwik.rs:56-85 decode_base: slicing the alphabet panics above its 64 characters
decode_base(input, from_base, to_base, checks) ==
    IF from_base > Len(BaseAlphabet) \/ to_base > Len(BaseAlphabet) THEN DecPanic
    ELSE LET value == SumDigits(input, from_base, 0, 0, checks) IN
         IF value.kind = "panic" THEN DecPanic
         ELSE IF value.v = 0
         THEN ParseI64(<<IF to_base > 0 THEN BaseAlphabet[1] ELSE "0">>)
         ELSE ParseI64(Render(value.v, to_base))

RECURSIVE DecString(_)
\* usize::to_string
DecString(n) ==
    IF n < 10 THEN <<DecimalDigits[n + 1]>>
    ELSE Append(DecString(n \div 10), DecimalDigits[(n % 10) + 1])

RECURSIVE ReplaceChar(_, _, _)
\* str::replace(char, &str): every occurrence of c becomes the text by
ReplaceChar(text, c, by) ==
    IF text = <<>> THEN <<>>
    ELSE (IF Head(text) = c THEN by ELSE <<Head(text)>>) \o ReplaceChar(Tail(text), c, by)

RECURSIVE ReplaceAll(_, _, _, _)
\* kwik.rs:111-114  one replace per character of the key, in key order, each on the
\* text the earlier ones left: the replaces for the key positions lo..hi
ReplaceAll(text, alphabet_key, lo, hi) ==
    IF text = <<>> \/ lo > hi THEN text
    ELSE IF lo = hi THEN ReplaceChar(text, alphabet_key[lo], DecString(lo - 1))
    ELSE LET mid == (lo + hi) \div 2
             left == ReplaceAll(text, alphabet_key, lo, mid) IN
         ReplaceAll(left, alphabet_key, mid + 1, hi)

\* a split that drops empty tokens
RECURSIVE ChunksNoEmpty(_, _, _)
ChunksNoEmpty(chars, sentinel, i) ==
    IF i > Len(chars) THEN <<>>
    ELSE LET stops == { j \in i..Len(chars) : chars[j] = sentinel }
             j == IF stops = {} THEN Len(chars) + 1
                  ELSE CHOOSE x \in stops : \A y \in stops : x <= y IN
         (IF j = i THEN <<>> ELSE <<SubSeq(chars, i, j - 1)>>)
            \o ChunksNoEmpty(chars, sentinel, j + 1)

RECURSIVE Chunks(_, _, _)
\* kwik.rs:103-109  the chunks between sentinels, from position i on
Chunks(chars, sentinel, i) ==
    IF i > Len(chars) THEN <<>>
    ELSE LET stops == { j \in i..Len(chars) : chars[j] = sentinel }
             j == IF stops = {} THEN Len(chars) + 1
                  ELSE CHOOSE x \in stops : \A y \in stops : x <= y IN
         <<SubSeq(chars, i, j - 1)>> \o Chunks(chars, sentinel, j + 1)

\* kwik.rs:117  char::from_u32(code as u32).unwrap_or('\0'): a negative code casts
\* to a value above 0x10FFFF; surrogates are no characters
FromU32(code) ==
    IF code >= 0 /\ code <= 1114111 /\ ~(code >= 55296 /\ code <= 57343)
    THEN code ELSE 0

\* a code that adds the offset
CodeOfPlus(value, offset, checks) == Arith(value + offset, checks)

\* kwik.rs:116  decode_base(..)? - offset
CodeOf(value, offset, checks) == Arith(value - offset, checks)

RECURSIVE DecodeTokens(_, _, _, _, _)
\* kwik.rs:102-118  one character per token, stopping at the first failure
DecodeTokens(tokens, alphabet_key, offset, base, checks) ==
    IF tokens = <<>> THEN DecOk(0, <<>>)
    ELSE LET replaced == ReplaceAll(Head(tokens), alphabet_key, 1, Len(alphabet_key))
             num == decode_base(replaced, base, 10, checks) IN
         IF num.kind # "ok" THEN num
         ELSE LET code == CodeOf(num.v, offset, checks) IN
              IF code.kind = "panic" THEN DecPanic
              ELSE LET rest == DecodeTokens(Tail(tokens), alphabet_key, offset, base, checks) IN
                   IF rest.kind # "ok" THEN rest
                   ELSE DecOk(0, <<FromU32(code.v)>> \o rest.out)

\* kwik.rs:87-121 decode_js_style; the output is the sequence of code points
decode_js_style(encoded, alphabet_key, offset, base, checks) ==
    IF ~(base < Len(alphabet_key)) THEN DecErr("InvalidAlphabetBaseIndex")
    ELSE DecodeTokens(Chunks(encoded, alphabet_key[base + 1], 1), alphabet_key, offset,
                      base, checks)

\* kwik.rs:273-284 (and 356-370): the offset and base digits are parsed as i64 and
\* usize, then the payload is decoded
DecodePayload(p, checks) ==
    IF p.offset > I64Max THEN DecErr("InvalidOffset")
    ELSE IF p.base > UsizeMax THEN DecErr("InvalidBase")
    ELSE decode_js_style(p.encoded, p.alphabet_key, p.offset, p.base, checks)

RECURSIVE EncodeNumber(_, _, _)
\* the inverse of the decoder on one number: its digits in `base`, most significant
\* first, each written as the key character at that index
EncodeNumber(n, alphabet_key, base) ==
    IF n < base THEN <<alphabet_key[n + 1]>>
    ELSE Append(EncodeNumber(n \div base, alphabet_key, base), alphabet_key[(n % base) + 1])

RECURSIVE Encode(_, _, _, _)
\* the inverse of the decoder on a text: each code point plus the offset, encoded and
\* closed by the sentinel
Encode(text, alphabet_key, offset, base) ==
    IF text = <<>> THEN <<>>
    ELSE EncodeNumber(Head(text) + offset, alphabet_key, base)
            \o <<alphabet_key[base + 1]>>
            \o Encode(Tail(text), alphabet_key, offset, base)

\* alphabet keys of the payloads decoded
KeyAbc == <<"a", "b", "c">>
KeyAbcdef == <<"a", "b", "c", "d", "e", "f">>
KeyAbcdefg == <<"a", "b", "c", "d", "e", "f", "g">>
KeyDigits == <<"1", "0", "c">>
KeyTwelve == <<"b", "c", "d", "e", "f", "g", "h", "i", "j", "k", "l", "m">>
KeyLong == BaseAlphabet \o <<"-", "_">>
KeyBases ==
    { <<KeyAbc, 0>>, <<KeyAbc, 1>>, <<KeyAbc, 2>>, <<KeyAbc, 3>>, <<KeyAbc, UsizeMax + 1>>,
      <<KeyAbcdef, 6>>, <<KeyAbcdefg, 5>>, <<KeyAbcdefg, 6>>, <<KeyDigits, 2>>,
      <<KeyTwelve, 10>>, <<KeyTwelve, 11>>, <<KeyLong, 64>>, <<KeyLong, 65>> }
Offsets == {0, 1, I64Max + 1}
\* characters of the encoded texts that are not built by Encode
EncChars == {"a", "c", "f", "g", "l", "1", "5"}
RECURSIVE TextsOfLen(_)
TextsOfLen(n) ==
    IF n = 0 THEN {<<>>}
    ELSE { Append(t, c) : t \in TextsOfLen(n - 1), c \in EncChars }
ShortTexts == UNION { TextsOfLen(n) : n \in 0..MaxEncLen }
\* texts that are encoded to build a payload
CodePoints == {0, 5, 65}
Originals ==
    {<<>>} \cup { <<a>> : a \in CodePoints } \cup { <<a, b>> : a, b \in CodePoints }
Encodable(kb, offset) ==
    /\ kb[2] >= 2
    /\ kb[2] < Len(kb[1])
    /\ offset <= 1

NoPacked == [encoded |-> <<>>, alphabet_key |-> <<>>, offset |-> 0, base |-> 0]
NoOriginal == [built |-> FALSE, text |-> <<>>]
NoExtracted == [ok |-> FALSE, err |-> KRunning, link |-> NoLink, token |-> ""]

\* the codec is not under call
CdIdle ==
    /\ cpc = "idle"
    /\ fn = "none"
    /\ packed = NoPacked
    /\ overflow_checks = FALSE
    /\ original = NoOriginal
    /\ decoded = NoDecoded
    /\ markup = NoDoc
    /\ extracted = NoExtracted

\* one call of the decode stage on a matched payload, or one call of
\* extract_link_and_token on a decoded document
CdInit ==
    /\ cpc = "ready"
    /\ decoded = NoDecoded
    /\ extracted = NoExtracted
    /\ \/ /\ fn = "decode"
          /\ markup = NoDoc
          /\ overflow_checks \in BOOLEAN
          /\ \E kb \in KeyBases, offset \in Offsets :
                \/ /\ original = NoOriginal
                   /\ \E t \in ShortTexts :
                         packed = [encoded |-> t, alphabet_key |-> kb[1],
                                   offset |-> offset, base |-> kb[2]]
                \/ /\ Encodable(kb, offset)
                   /\ \E t \in Originals :
                         /\ original = [built |-> TRUE, text |-> t]
                         /\ packed = [encoded |-> Encode(t, kb[1], offset, kb[2]),
                                      alphabet_key |-> kb[1], offset |-> offset,
                                      base |-> kb[2]]
       \/ /\ fn = "extract"
          /\ markup \in Docs
          /\ packed = NoPacked
          /\ overflow_checks = FALSE
          /\ original = NoOriginal

\* kwik.rs:273-284: the decode stage applied to the payload
DecodeCall ==
    /\ cpc = "ready"
    /\ fn = "decode"
    /\ decoded' = DecodePayload(packed, overflow_checks)
    /\ cpc' = "done"
    /\ UNCHANGED <<fn, packed, overflow_checks, original, markup, extracted>>
    /\ UNCHANGED <<dlVars, kwVars, obVars, ckVars, clVars, agVars>>

\* kwik.rs:297: extract_link_and_token applied to the document
ExtractCall ==
    /\ cpc = "ready"
    /\ fn = "extract"
    /\ extracted' = ExtractLinkAndToken(markup)
    /\ cpc' = "done"
    /\ UNCHANGED <<fn, packed, overflow_checks, original, decoded, markup>>
    /\ UNCHANGED <<dlVars, kwVars, obVars, ckVars, clVars, agVars>>

(* ============ cookie stores, kwik.rs:27-54 and client.rs:85-124 ========= *)
\* the two PaheClient instances whose resolutions run side by side
Instances == {1, 2}

\* what the caller may pass as cookie string ("": none, client.rs:70-72)
CookieHeaders == {"", "a=b"}

\* client.rs:97: the jar of PaheClient is seeded for https://{base_domain}/
BaseDomain == "animepahe.si"
PaheHost == "pahe.win"
KwikHost == "kwik.cx"

\* a cookie in a jar: the host it belongs to and where it came from
\* (from = 0: the caller's cookie string; from = i: a response to instance i)
Cookie(host, from) == [host |-> host, from |-> from]

\* the jars a process can hold: one per (instance, builder), and 0 for a jar that
\* belongs to no instance
JarIds == ({0} \cup Instances) \X {"jar", "client", "no_redirect_client"}

\* one jar for every instance of the process
JarIdGlobal(i, client) == <<0, "jar">>

\* a jar of its own for each of the two reqwest clients
JarIdPerClient(i, client) == <<i, client>>

\* kwik.rs:29-41: KwikClient::new makes one Arc<Jar> and gives it to both builders
JarId(i, client) == <<i, "jar">>

\* client.rs:100-110: every piece of the cookie string that holds '=' is added to
\* PaheClient's own jar (client.rs:96) for the base domain
SeededJar(header) == IF header = "" THEN {} ELSE {Cookie(BaseDomain, 0)}

\* kwik.rs:29: Jar::default(), whatever cookie string PaheClient was given
\* (client.rs:121: KwikClient::new() takes no argument)
KwikSeed(header) == {}

\* reqwest's cookie store: a request carries the jar's cookies for its host
CookiesFor(j, host) == {c \in j : c.host = host}

\* a request of the resolver: what it carries (the jar's cookies for the host; no
\* Cookie header is set in kwik.rs:170-180, 223-230, 317-318), the jar it was
\* built from, and the cookies its response set
JarRequest(method, client, host, store, set) ==
    [method |-> method, client |-> client, host |-> host,
     cookies |-> CookiesFor(store, host), cookie_header |-> "",
     store |-> store, set |-> set]

\* no resolver instance exists
\* no resolver instance exists
CkIdle ==
    /\ cookie_header = <<>>
    /\ pahe_jar = <<>>
    /\ jar = <<>>
    /\ jpc = <<>>
    /\ jretries = <<>>
    /\ sent = <<>>

\* PaheClient::with_cookie_header for each instance (client.rs:85-124)
CkInit ==
    /\ cookie_header \in [Instances -> CookieHeaders]
    /\ pahe_jar = [i \in Instances |-> SeededJar(cookie_header[i])]
    /\ jar = [id \in JarIds |->
                IF id[1] \in Instances /\ id = JarId(id[1], "client")
                THEN KwikSeed(cookie_header[id[1]]) ELSE {}]
    /\ jpc = [i \in Instances |-> "extract"]
    /\ jretries = [i \in Instances |-> 0]
    /\ sent = [i \in Instances |-> <<>>]

\* one request of instance i through `client`: it carries the cookies its jar holds
\* for the host, and the response's Set-Cookie, if any, goes into the same jar.
\* The host issues its session cookie to a request that carries none (a cookie
\* issued again would leave the jar as it is).
SendOn(i, method, client, host) ==
    \E sets \in BOOLEAN :
       LET id == JarId(i, client)
           set == IF sets THEN {Cookie(host, i)} ELSE {}
       IN /\ sets => Cookie(host, i) \notin jar[id]
          /\ sent' = [sent EXCEPT ![i] = Append(@,
                         JarRequest(method, client, host, jar[id], set))]
          /\ jar' = [jar EXCEPT ![id] = @ \cup set]

\* kwik.rs:314-386: extract_kwik_link of instance i: the pahe page GET, then an
\* error or the call of fetch_kwik_dlink with the budget
ExtractKwikLinkOn(i) ==
    /\ jpc[i] = "extract"
    /\ SendOn(i, "GET", "client", PaheHost)
    /\ \/ /\ jpc' = [jpc EXCEPT ![i] = "done"]
          /\ UNCHANGED jretries
       \/ /\ jpc' = [jpc EXCEPT ![i] = "dlink"]
          /\ jretries' = [jretries EXCEPT ![i] = RetryBudget]
    /\ UNCHANGED <<cookie_header, pahe_jar>>
    /\ UNCHANGED <<dlVars, kwVars, cdVars, obVars, clVars, agVars>>

\* kwik.rs:215-311: one call of fetch_kwik_dlink of instance i: the budget test,
\* the mirror page GET, then an error, a retry or the form POST
FetchKwikDlinkOn(i) ==
    /\ jpc[i] = "dlink"
    /\ IF BudgetExhausted(jretries[i])
       THEN /\ jpc' = [jpc EXCEPT ![i] = "done"]
            /\ UNCHANGED <<jretries, jar, sent>>
       ELSE /\ SendOn(i, "GET", "client", KwikHost)
            /\ \/ /\ jpc' = [jpc EXCEPT ![i] = "done"]
                  /\ UNCHANGED jretries
               \/ /\ jretries' = [jretries EXCEPT ![i] = @ - 1]
                  /\ UNCHANGED jpc
               \/ /\ jpc' = [jpc EXCEPT ![i] = "post"]
                  /\ UNCHANGED jretries
    /\ UNCHANGED <<cookie_header, pahe_jar>>
    /\ UNCHANGED <<dlVars, kwVars, cdVars, obVars, clVars, agVars>>

\* kwik.rs:168-213: fetch_kwik_direct of instance i: the form POST
FetchKwikDirectOn(i) ==
    /\ jpc[i] = "post"
    /\ SendOn(i, "POST", "no_redirect_client", KwikHost)
    /\ jpc' = [jpc EXCEPT ![i] = "done"]
    /\ UNCHANGED <<cookie_header, pahe_jar, jretries>>
    /\ UNCHANGED <<dlVars, kwVars, cdVars, obVars, clVars, agVars>>

(* ================ release pages, src/client.rs:170-368 ================= *)
\* client.rs:299-300, 342: the release API serves 30 entries a page
PageSize == 30

\* Result<Vec<(u32, String)>>, or a PaheError (src/errors.rs:7-66)
PRunning == [kind |-> "none", context |-> "", status |-> 0, body |-> "", hint |-> ""]
POk == [PRunning EXCEPT !.kind = "Ok"]
PErr(kind, context) == [PRunning EXCEPT !.kind = kind, !.context = context]
PDdosGuard(context, hint) ==
    [PRunning EXCEPT !.kind = "DdosGuard", !.context = context, !.hint = hint]
PHttpStatus(context, status, body) ==
    [PRunning EXCEPT !.kind = "HttpStatus", !.context = context, !.status = status,
                     !.body = body]

\* str::contains
Contains(body, needle) ==
    \E i \in 1..(Len(body) - Len(needle) + 1) :
        SubSeq(body, i, i + Len(needle) - 1) = needle

\* client.rs:170-174 detect_ddos_guard
DetectDdosGuard(body) ==
    \/ Contains(body, "DDoS-Guard")
    \/ Contains(body, "/.well-known/ddos-guard/js-challenge")
    \/ Contains(body, "Checking your browser before accessing")

\* client.rs:195-199
HintWithCookie == "DDoS-Guard challenge detected even with provided cookie header. Refresh cookies from a real browser session."
HintNoCookie == "DDoS-Guard challenge detected. Solve challenge in a real browser and initialize .cookies_str(COOKIES)"

\* client.rs:176-211 ensure_success_or_ddg: Ok(response) is kind "Ok"
EnsureSuccessOrDdg(response, context, hinted) ==
    IF IsSuccess(response.status) THEN POk
    ELSE LET body == ErrorBody(response) IN
         IF response.status = 403 /\ DetectDdosGuard(body)
         THEN PDdosGuard(context, IF hinted THEN HintWithCookie ELSE HintNoCookie)
         ELSE PHttpStatus(context, response.status, body)

\* the server's ascending release list: entry k is episode k, with session k
Release(k) == [episode |-> k, session |-> k]
\* the `data` of page p of a list of `total` entries
ReleasePageData(total, p) ==
    LET lo == (p - 1) * PageSize
        n == IF total - lo > PageSize THEN PageSize
             ELSE IF total - lo < 0 THEN 0 ELSE total - lo
    IN [i \in 1..n |-> Release(lo + i)]

\* responses to a release API GET: none, an error status with its body, or 200 with
\* a body that is the page's JSON or is not JSON
ApiBodies == {"<html>normal page</html>", "<title>DDoS-Guard</title>",
              "<p>Checking your browser before accessing</p>"}
ApiResponses ==
    { [sent |-> FALSE, status |-> 0, text_ok |-> FALSE, text |-> "", json_ok |-> FALSE] }
    \cup { [sent |-> TRUE, status |-> st, text_ok |-> TRUE, text |-> b, json_ok |-> FALSE] :
              st \in {403, 500}, b \in ApiBodies }
    \cup { [sent |-> TRUE, status |-> 403, text_ok |-> FALSE, text |-> "", json_ok |-> FALSE] }
    \cup { [sent |-> TRUE, status |-> 200, text_ok |-> TRUE, text |-> "", json_ok |-> ok] :
              ok \in BOOLEAN }

\* client.rs:357  format!("https://{}/play/{id}/{}", self.base_domain, item.session)
PlayLink(session) == [host |-> BaseDomain, seg |-> "play", session |-> session]

\* client.rs:299-300  ((episode - 1) / 30) + 1, on episodes >= 1
PageOf(episode) == ((episode - 1) \div PageSize) + 1

\* client.rs:342  let mut current_index = (start_page - 1) * 30;
CurrentIndexStart(start_page, p) == (start_page - 1) * PageSize

\* client.rs:344-359: the loop over the items of one page
RECURSIVE PushItems(_, _, _, _, _)
PushItems(acc, data, current_index, from, to) ==
    IF data = <<>> THEN acc
    ELSE LET ci == current_index + 1 IN
         IF ci < from THEN PushItems(acc, Tail(data), ci, from, to)
         ELSE IF ci > to THEN acc
         ELSE PushItems(Append(acc, <<Head(data).episode, PlayLink(Head(data).session)>>),
                        Tail(data), ci, from, to)

ClIdle ==
    /\ lpc = "idle"
    /\ release_total = 0
    /\ cookie_hint = FALSE
    /\ from_episode = 1
    /\ to_episode = 1
    /\ page = 0
    /\ links = <<>>
    /\ pageLog = <<>>
    /\ lresult = PRunning

\* a client, a series and an inclusive range of 1-based positions
ClInit ==
    /\ lpc = "call"
    /\ release_total \in {0} \cup (PageSize..MaxReleases)
    /\ cookie_hint \in BOOLEAN
    /\ from_episode \in 1..MaxReleases
    /\ to_episode \in from_episode..MaxReleases
    /\ page = 0
    /\ links = <<>>
    /\ pageLog = <<>>
    /\ lresult = PRunning

\* client.rs:293-311: the page range, the empty Vec, the first value of the loop
FetchSeriesEpisodeLinks ==
    /\ lpc = "call"
    /\ page' = PageOf(from_episode)
    /\ links' = <<>>
    /\ lpc' = "page"
    /\ UNCHANGED <<release_total, cookie_hint, from_episode, to_episode, pageLog, lresult>>
    /\ UNCHANGED <<dlVars, kwVars, cdVars, obVars, ckVars, agVars>>

\* client.rs:311-360: one iteration of the page loop
LoadReleasePage ==
    /\ lpc = "page"
    /\ page <= PageOf(to_episode)
    /\ pageLog' = Append(pageLog, page)
    /\ \E resp \in ApiResponses :
          LET checked == EnsureSuccessOrDdg(resp, "animepahe page", cookie_hint) IN
          IF ~resp.sent
          THEN /\ lresult' = PErr("Request", "loading api page")
               /\ lpc' = "done"
               /\ UNCHANGED <<page, links>>
          ELSE IF checked.kind # "Ok"
          THEN /\ lresult' = checked
               /\ lpc' = "done"
               /\ UNCHANGED <<page, links>>
          ELSE IF ~resp.json_ok
          THEN /\ lresult' = PErr("Json", "parsing release page json")
               /\ lpc' = "done"
               /\ UNCHANGED <<page, links>>
          ELSE /\ links' = PushItems(links, ReleasePageData(release_total, page),
                                     CurrentIndexStart(PageOf(from_episode), page),
                                     from_episode, to_episode)
               /\ page' = page + 1
               /\ UNCHANGED <<lpc, lresult>>
    /\ UNCHANGED <<release_total, cookie_hint, from_episode, to_episode>>
    /\ UNCHANGED <<dlVars, kwVars, cdVars, obVars, ckVars, agVars>>

\* client.rs:362-367: the loop is over, Ok(links)
ReturnLinks ==
    /\ lpc = "page"
    /\ page > PageOf(to_episode)
    /\ lresult' = POk
    /\ lpc' = "done"
    /\ UNCHANGED <<release_total, cookie_hint, from_episode, to_episode, page, links,
                   pageLog>>
    /\ UNCHANGED <<dlVars, kwVars, cdVars, obVars, ckVars, agVars>>

(* ============ the episode argument, crates/cli/src/args.rs ============== *)
\* constants.rs:11  ^[a-f0-9]{32,}$
SessionIdMinLen == 32
\* constants.rs:27  ([a-f0-9-]{36})
AnimeIdLen == 36
\* constants.rs:5
AnimepaheDomain == "animepahe.si"

\* a text is a sequence of characters; the characters of a string literal
Chars(str) == [i \in 1..Len(str) |-> SubSeq(str, i, i)]
RECURSIVE Rep(_, _)
Rep(c, n) == IF n = 0 THEN <<>> ELSE Append(Rep(c, n - 1), c)

\* i32 at the modelled width
I32Max == 2^(IntBits - 1) - 1
I32Min == -(2^(IntBits - 1))

\* Result<EpisodeRange, String> (args.rs:90-100)
NoArg == [kind |-> "none", start |-> 0, end |-> 0, anime_id |-> <<>>,
          has_anime_id |-> FALSE, session_id |-> <<>>, err |-> ""]
Range(start, end) == [NoArg EXCEPT !.kind = "Range", !.start = start, !.end = end]
Session(has, anime_id, session_id) ==
    [NoArg EXCEPT !.kind = "Session", !.has_anime_id = has, !.anime_id = anime_id,
                  !.session_id = session_id]
ArgErr(msg) == [NoArg EXCEPT !.kind = "Err", !.err = msg]

IsDigit(c) == c \in {"0", "1", "2", "3", "4", "5", "6", "7", "8", "9"}
\* [a-f0-9]
IsHex(c) == IsDigit(c) \/ c \in {"a", "b", "c", "d", "e", "f"}
DigitValue(c) == (CHOOSE i \in 1..10 : DecimalDigits[i] = c) - 1

\* str::trim, for the space character
RECURSIVE TrimStart(_)
TrimStart(t) == IF t # <<>> /\ Head(t) = " " THEN TrimStart(Tail(t)) ELSE t
RECURSIVE TrimEnd(_)
TrimEnd(t) ==
    IF t # <<>> /\ t[Len(t)] = " " THEN TrimEnd(SubSeq(t, 1, Len(t) - 1)) ELSE t
Trim(t) == TrimEnd(TrimStart(t))

\* str::parse::<i32>: an optional sign, then one or more decimal digits, and a
\* value within i32
RECURSIVE Magnitude(_, _)
Magnitude(digits, acc) ==
    IF digits = <<>> THEN acc
    ELSE Magnitude(Tail(digits), acc * 10 + DigitValue(Head(digits)))
ParseI32(t) ==
    LET signed == t # <<>> /\ Head(t) \in {"+", "-"}
        digits == IF signed THEN Tail(t) ELSE t
        value == IF signed /\ Head(t) = "-" THEN -Magnitude(digits, 0)
                 ELSE Magnitude(digits, 0)
    IN IF digits = <<>> \/ \E i \in 1..Len(digits) : ~IsDigit(digits[i])
       THEN [ok |-> FALSE, v |-> 0]
       ELSE IF value < I32Min \/ value > I32Max THEN [ok |-> FALSE, v |-> 0]
       ELSE [ok |-> TRUE, v |-> value]

\* i32's Display
I32String(n) == IF n < 0 THEN <<"-">> \o DecString(-n) ELSE DecString(n)

\* t starts with the characters of pre
StartsWith(t, pre) == Len(t) >= Len(pre) /\ SubSeq(t, 1, Len(pre)) = pre
DropPrefix(t, pre) == SubSeq(t, Len(pre) + 1, Len(t))

\* the longest run of [a-f0-9] at the head of t
RECURSIVE HexRun(_)
HexRun(t) == IF t # <<>> /\ IsHex(Head(t)) THEN 1 + HexRun(Tail(t)) ELSE 0

\* constants.rs:24-33 PLAY_LINK_RE:
\* ^https?://(?:www\.)?animepahe\.si/play/([a-f0-9-]{36})/([a-f0-9]{32,})(?:[/?#].*)?$
PlayLinkCaptures(t) ==
    LET none == [some |-> FALSE, anime_id |-> <<>>, session_id |-> <<>>]
        afterScheme == IF StartsWith(t, Chars("https://")) THEN DropPrefix(t, Chars("https://"))
                       ELSE IF StartsWith(t, Chars("http://")) THEN DropPrefix(t, Chars("http://"))
                       ELSE <<"!">>
        afterWww == IF StartsWith(afterScheme, Chars("www."))
                    THEN DropPrefix(afterScheme, Chars("www.")) ELSE afterScheme
        head == Chars(AnimepaheDomain) \o Chars("/play/")
        rest == DropPrefix(afterWww, head)
        id == SubSeq(rest, 1, AnimeIdLen)
        tail == SubSeq(rest, AnimeIdLen + 2, Len(rest))
        run == HexRun(tail)
    IN IF ~StartsWith(afterWww, head) THEN none
       ELSE IF Len(rest) < AnimeIdLen + 1 THEN none
       ELSE IF \E i \in 1..AnimeIdLen : ~(IsHex(id[i]) \/ id[i] = "-") THEN none
       ELSE IF rest[AnimeIdLen + 1] # "/" THEN none
       ELSE IF run < SessionIdMinLen THEN none
       ELSE IF run < Len(tail) /\ tail[run + 1] \notin {"/", "?", "#"} THEN none
       ELSE [some |-> TRUE, anime_id |-> id, session_id |-> SubSeq(tail, 1, run)]

\* constants.rs:10-11 SESSION_ID_RE
IsSessionId(t) == Len(t) >= SessionIdMinLen /\ \A i \in 1..Len(t) : IsHex(t[i])

\* str::split_once('-')
SplitOnce(t) ==
    IF \E i \in 1..Len(t) : t[i] = "-"
    THEN LET i == CHOOSE k \in 1..Len(t) : t[k] = "-" /\ \A j \in 1..(k - 1) : t[j] # "-"
         IN [some |-> TRUE, start |-> SubSeq(t, 1, i - 1), end |-> SubSeq(t, i + 1, Len(t))]
    ELSE [some |-> FALSE, start |-> <<>>, end |-> <<>>]

\* a start test that lets a descending span through
StartAfterEndNever(start, end) == FALSE

\* args.rs:131
StartAfterEnd(start, end) == start > end

\* args.rs:150: a Range of one episode is written as the number alone
SpanNeeded(start, end) == ~(start = end)

\* args.rs:105-143 EpisodeRange::from_str
FromStr(text) ==
    LET t == Trim(text)
        play == PlayLinkCaptures(t)
        parts == SplitOnce(t)
    IN IF play.some THEN Session(TRUE, play.anime_id, play.session_id)
       ELSE IF IsSessionId(t) THEN Session(FALSE, <<>>, t)
       ELSE IF parts.some
       THEN LET start == ParseI32(parts.start)
                end == ParseI32(parts.end)
            IN IF ~start.ok THEN ArgErr("invalid start")
               ELSE IF ~end.ok THEN ArgErr("invalid end")
               ELSE IF StartAfterEnd(start.v, end.v)
               THEN ArgErr("start cannot be greater than end")
               ELSE Range(start.v, end.v)
       ELSE LET value == ParseI32(t) IN
            IF ~value.ok THEN ArgErr("invalid number/session id/url")
            ELSE Range(value.v, value.v)

\* args.rs:146-166 Display for EpisodeRange
Display(r) ==
    IF r.kind = "Range"
    THEN IF SpanNeeded(r.start, r.end)
         THEN I32String(r.start) \o <<"-">> \o I32String(r.end)
         ELSE I32String(r.start)
    ELSE IF r.has_anime_id
    THEN Chars("https://") \o Chars(AnimepaheDomain) \o Chars("/play/") \o r.anime_id
            \o <<"/">> \o r.session_id
    ELSE r.session_id

\* the arguments: every text of up to MaxArgLen of these characters, and longer ones
ArgChars == {"0", "1", "2", "9", "-", "+", " ", "a"}
RECURSIVE ArgsOfLen(_)
ArgsOfLen(n) ==
    IF n = 0 THEN {<<>>} ELSE { Append(t, c) : t \in ArgsOfLen(n - 1), c \in ArgChars }
SomeAnimeId == Chars("123e4567-e89b-12d3-a456-426614174000")
LongArgs ==
    LET sid == Rep("a", SessionIdMinLen) \o <<"0", "9">>
        short == Rep("a", SessionIdMinLen - 1)
        play == Chars(AnimepaheDomain) \o Chars("/play/") \o SomeAnimeId \o <<"/">>
    IN { sid, short, <<" ">> \o sid \o <<" ">>,
         Rep("0", SessionIdMinLen - 1) \o <<"1">>,
         Rep("0", SessionIdMinLen - 2) \o <<"1">>,
         Chars("https://") \o play \o sid,
         Chars("http://www.") \o play \o sid \o Chars("?x=1-2"),
         Chars("https://") \o play \o sid \o Chars("x"),
         Chars("https://") \o play \o short,
         Chars("ftp://") \o play \o sid,
         Chars("https://example.org/play/") \o SomeAnimeId \o <<"/">> \o sid }
Args == UNION { ArgsOfLen(n) : n \in 0..MaxArgLen } \cup LongArgs

AgIdle ==
    /\ apc = "idle"
    /\ episodes = <<>>
    /\ parsed = NoArg
    /\ shown = <<>>
    /\ reparsed = NoArg

AgInit ==
    /\ apc = "ready"
    /\ episodes \in Args
    /\ parsed = NoArg
    /\ shown = <<>>
    /\ reparsed = NoArg

\* the argument is parsed
ParseArg ==
    /\ apc = "ready"
    /\ parsed' = FromStr(episodes)
    /\ apc' = "parsed"
    /\ UNCHANGED <<episodes, shown, reparsed>>
    /\ UNCHANGED <<dlVars, kwVars, cdVars, obVars, ckVars, clVars>>

\* the parsed value is written with Display
ShowArg ==
    /\ apc = "parsed"
    /\ parsed.kind # "Err"
    /\ shown' = Display(parsed)
    /\ apc' = "shown"
    /\ UNCHANGED <<episodes, parsed, reparsed>>
    /\ UNCHANGED <<dlVars, kwVars, cdVars, obVars, ckVars, clVars>>

\* the Display text is parsed
ReparseArg ==
    /\ apc = "shown"
    /\ reparsed' = FromStr(shown)
    /\ apc' = "done"
    /\ UNCHANGED <<episodes, parsed, shown>>
    /\ UNCHANGED <<dlVars, kwVars, cdVars, obVars, ckVars, clVars>>

(* ========================= specifications ============================== *)
Init == DlInit(0..MaxSize, 0..MaxConn) /\ KwInit /\ CdIdle /\ ObIdle /\ CkIdle /\ ClIdle /\ AgIdle

Next ==
    \/ Download
    \/ SingleGet
    \/ SingleCreate
    \/ SingleChunk
    \/ ParallelPlan
    \/ ParallelCreate
    \/ Recv
    \/ RecvClosed
    \/ Tick
    \/ \E idx \in DOMAIN task : FetchChunk(idx)
    \/ \E idx \in DOMAIN task : SendResult(idx)

Spec == Init /\ [][Next]_vars

(* The range planner on its own, over larger sizes: download() routes and      *)
(* parallel_download() plans and spawns; the tasks are not run.                *)
InitPlan == DlInit(0..MaxPlanSize, 0..MaxPlanConn) /\ KwInit /\ CdIdle /\ ObIdle /\ CkIdle /\ ClIdle /\ AgIdle

NextPlan ==
    \/ Download
    \/ ParallelPlan

SpecPlan == InitPlan /\ [][NextPlan]_vars

(* One resolution on its own; the transfer engine stays idle.                  *)
InitResolver == DlInit({0}, {1}) /\ KwInit /\ CdIdle /\ ObIdle /\ CkIdle /\ ClIdle /\ AgIdle

NextResolver ==
    \/ ExtractKwikLink
    \/ FetchKwikDlink
    \/ FetchKwikDirect

SpecResolver == InitResolver /\ [][NextResolver]_vars

(* The decode stage and the extractor on their own, one call each.             *)
InitCodec == DlInit({0}, {1}) /\ KwInit /\ CdInit /\ ObIdle /\ CkIdle /\ ClIdle /\ AgIdle

NextCodec ==
    \/ DecodeCall
    \/ ExtractCall

SpecCodec == InitCodec /\ [][NextCodec]_vars

(* A transfer under the caller's event loop: the steps of the transfer and    *)
(* the arms of the loop in every interleaving.                                *)
InitObserver == DlInit(0..MaxObsSize, 0..MaxObsConn) /\ KwInit /\ CdIdle /\ ObInit /\ CkIdle /\ ClIdle /\ AgIdle

NextObserver ==
    \/ Next
    \/ LoopBreak
    \/ LoopEvent
    \/ LoopTick
    \/ Drain

SpecObserver == InitObserver /\ [][NextObserver]_vars

(* Two PaheClient instances, each resolving one link, in every interleaving.   *)
InitJar == DlInit({0}, {1}) /\ KwInit /\ CdIdle /\ ObIdle /\ CkInit /\ ClIdle /\ AgIdle

NextJar ==
    \/ \E i \in Instances : ExtractKwikLinkOn(i)
    \/ \E i \in Instances : FetchKwikDlinkOn(i)
    \/ \E i \in Instances : FetchKwikDirectOn(i)

SpecJar == InitJar /\ [][NextJar]_vars

(* One call of fetch_series_episode_links against a release list.            *)
InitClient == DlInit({0}, {1}) /\ KwInit /\ CdIdle /\ ObIdle /\ CkIdle /\ ClInit /\ AgIdle

NextClient ==
    \/ FetchSeriesEpisodeLinks
    \/ LoadReleasePage
    \/ ReturnLinks

SpecClient == InitClient /\ [][NextClient]_vars

(* One episode argument: parsed, written, parsed again.                       *)
InitArgs == DlInit({0}, {1}) /\ KwInit /\ CdIdle /\ ObIdle /\ CkIdle /\ ClIdle /\ AgInit

NextArgs ==
    \/ ParseArg
    \/ ShowArg
    \/ ReparseArg

SpecArgs == InitArgs /\ [][NextArgs]_vars

(* ============================ properties ================================ *)
\* the chunk payloads of tasks 0..n-1 in ascending index order
RECURSIVE ConcatChunks(_, _)
ConcatChunks(t, n) == IF n = 0 THEN <<>> ELSE ConcatChunks(t, n - 1) \o t[n - 1].res.bytes

\* C1: when a parallel transfer whose chunk fetches all succeeded returns Ok, the
\* file holds the chunk payloads concatenated in ascending index order, whatever
\* order the results were received in.
C1_ReassemblyInOrder ==
    (result = Ok /\ DOMAIN task # {} /\ \A i \in DOMAIN task : task[i].res.ok)
        => file.bytes = ConcatChunks(task, Cardinality(DOMAIN task))

\* a successful transfer whose three chunks arrived last-first
C1_Witness ==
    /\ result = Ok
    /\ arrived = <<2, 1, 0>>
    /\ file.bytes = ConcatChunks(task, 3)

\* C2: the ranges handed to the spawned tasks are ascending, contiguous and
\* non-overlapping, start at 0 and end at total_size - 1.
C2_RangesPartition ==
    pc = "par_create" =>
        LET n == Cardinality(DOMAIN task) IN
        /\ total_size >= 1
        /\ n >= 1
        /\ DOMAIN task = 0..(n - 1)
        /\ task[0].start = 0
        /\ task[n - 1].end = total_size - 1
        /\ \A i \in 0..(n - 1) : task[i].start <= task[i].end
        /\ \A i \in 1..(n - 1) : task[i].start = task[i - 1].end + 1

\* a plan in which a trailing index got no range (5 bytes, 4 workers)
C2_Witness ==
    /\ pc = "par_create"
    /\ Cardinality(DOMAIN task) < workers
    /\ connections > 0

\* C3: worker i gets [i*cs, min((i+1)*cs, total_size) - 1] with
\* cs = ceil(total_size / effective_workers), an index whose start is at or past
\* total_size gets nothing, and 10 bytes over 3 workers give (0,3), (4,7), (8,9).
C3_RangeFormula ==
    pc = "par_create" =>
        LET eff == IF connections < 1
                   THEN 1
                   ELSE (IF connections < total_size THEN connections ELSE total_size)
            cs == CHOOSE c \in 1..total_size :
                      c * eff >= total_size /\ (c - 1) * eff < total_size
            hi(i) == IF (i + 1) * cs < total_size THEN (i + 1) * cs ELSE total_size
        IN /\ DOMAIN task \subseteq 0..(eff - 1)
           /\ \A i \in 0..(eff - 1) :
                 IF i * cs >= total_size
                 THEN i \notin DOMAIN task
                 ELSE /\ i \in DOMAIN task
                      /\ task[i].start = i * cs
                      /\ task[i].end = hi(i) - 1
           /\ (total_size = 10 /\ connections = 3) =>
                 /\ DOMAIN task = {0, 1, 2}
                 /\ <<task[0].start, task[0].end>> = <<0, 3>>
                 /\ <<task[1].start, task[1].end>> = <<4, 7>>
                 /\ <<task[2].start, task[2].end>> = <<8, 9>>

\* the plan of 10 bytes over 3 workers
C3_Witness ==
    /\ pc = "par_create"
    /\ total_size = 10
    /\ connections = 3
    /\ Cardinality(DOMAIN task) = 3

\* C4: between 1 and min(max(connections, 1), total_size) tasks are spawned.
C4_SpawnCount ==
    pc = "par_create" =>
        /\ Cardinality(DOMAIN task) >= 1
        /\ Cardinality(DOMAIN task) <= (IF connections < 1 THEN 1 ELSE connections)
        /\ Cardinality(DOMAIN task) <= total_size

\* more connections requested than there are bytes: one task per byte
C4_Witness ==
    /\ pc = "par_create"
    /\ connections > total_size
    /\ Cardinality(DOMAIN task) = total_size

\* the tasks whose fetch_chunk ended in an error
FailedIdx == {i \in DOMAIN task : task[i].st # "spawned" /\ ~task[i].res.ok}

\* C5: once a chunk fetch has failed the transfer never returns Ok, what it
\* returns is an error, and the failed range has been requested exactly once.
C5_ChunkFailureAborts ==
    FailedIdx # {} =>
        /\ result # Ok
        /\ (pc = "done" => result.kind \in {"Request", "HttpStatus", "Io"})
        /\ \A i \in FailedIdx :
              CopiesIn(<<task[i].start, task[i].end>>, rangeReqs) = 1

\* a transfer that returned the status error of one chunk after another chunk
\* had been fetched and delivered
C5_Witness ==
    /\ pc = "done"
    /\ result = Err("HttpStatus", "downloading chunk")
    /\ \E i \in DOMAIN task : task[i].st = "done" /\ task[i].res.ok
    /\ \E i \in FailedIdx : task[i].st = "done"

\* the HEAD request was answered
ProbeAnswered ==
    /\ pc # "download"
    /\ result # Err("Request", "sending HEAD request")

\* C6: the parallel path is taken only when the probe reported a length and
\* Accept-Ranges: bytes; otherwise exactly one GET without Range is issued and
\* no Range request at all.
C6_RangePathNeedsBothSignals ==
    /\ (pc \in {"par_create", "par_loop"} \/ DOMAIN task # {} \/ rangeReqs # EmptyBag)
          => (size.some /\ accepts_ranges)
    /\ (ProbeAnswered /\ ~(size.some /\ accepts_ranges)) =>
          /\ DOMAIN task = {}
          /\ rangeReqs = EmptyBag
          /\ wholeGets = (IF pc = "single_get" THEN 0 ELSE 1)

\* a finished single-stream transfer of a resource whose length was reported
\* but whose server did not advertise ranges
C6_Witness ==
    /\ result = Ok
    /\ size.some
    /\ size.v > 0
    /\ ~accepts_ranges
    /\ wholeGets = 1
    /\ Len(file.bytes) = resLen

(* ------------------------- resolver properties -------------------------- *)
\* the failures fetch_kwik_dlink answers with a recursive call
RetryableOutcomes ==
    {"PayloadNotFound", "InvalidAlphabetBaseIndex", "MissingKwikPostLink", "MissingToken"}
AllAttemptsRetryable ==
    \A i \in 1..Len(attempts) : attempts[i].outcome \in RetryableOutcomes
\* GET requests for the mirror page issued so far
KwikGets ==
    Cardinality({i \in 1..Len(reqLog) : reqLog[i].method = "GET" /\ reqLog[i].url = kwik_link})
Posts == Cardinality({i \in 1..Len(reqLog) : reqLog[i].method = "POST"})

DecodeOrExtractKinds ==
    {"InvalidAlphabetBaseIndex", "ParseInt", "MissingKwikPostLink", "MissingToken"}

PageStatusError(context, seen) ==
    KHttpStatus(context, seen.status, IF seen.text_ok THEN seen.text ELSE FailedBody)
Non2xx(seen) == seen.sent /\ (seen.status < 200 \/ seen.status > 299)

\* C9: a non-2xx response to a page GET, the first or any later one, ends the
\* resolution with HttpStatus carrying its status and body; no request follows
\* and the remaining budget stays unused.
C9_Non2xxPageIsFatal ==
    /\ Non2xx(paheResp) =>
          /\ kpc = "done"
          /\ kresult = PageStatusError("pahe link", paheResp)
          /\ Len(reqLog) = 1
          /\ attempts = <<>>
    /\ \A i \in 1..Len(attempts) :
          Non2xx(attempts[i].resp) =>
              /\ i = Len(attempts)
              /\ kpc = "done"
              /\ kresult = PageStatusError("kwik page", attempts[i].resp)
              /\ Len(reqLog) = 1 + i
              /\ retries = attempts[i].retries

\* a 403 on the third mirror page GET, with three units of budget left
C9_Witness ==
    /\ Len(attempts) = 3
    /\ attempts[3].resp.status = 403
    /\ attempts[3].resp.text_ok
    /\ kresult.kind = "HttpStatus"
    /\ kresult.body = "denied"
    /\ retries = 3

\* C10: a POST answered with a status other than 302 ends the resolution with
\* HttpStatus carrying the response body; the POST is the last request, whatever
\* budget remains.
C10_PostNon302IsFatal ==
    (postResp.sent /\ postResp.status # 302) =>
        /\ kpc = "done"
        /\ kresult = PageStatusError("kwik direct-link post", postResp)
        /\ Posts = 1
        /\ reqLog[Len(reqLog)].method = "POST"
        /\ retries > 0

\* a 301 with a Location header on the POST, after one retry, four units left
C10_Witness ==
    /\ postResp.sent
    /\ postResp.status = 301
    /\ postResp.location # NoLink
    /\ kresult.kind = "HttpStatus"
    /\ kresult.status = 301
    /\ Len(attempts) = 2
    /\ retries = 4

\* C11: a POST answered 302 whose Location header is absent, or present but not
\* readable as text, ends the resolution with MissingRedirectLocation; the POST is
\* the last request.
C11_NoLocationIsFatal ==
    (postResp.sent /\ postResp.status = 302 /\ postResp.loc # "text") =>
        /\ kpc = "done"
        /\ kresult = KErr("MissingRedirectLocation", "")
        /\ Posts = 1
        /\ reqLog[Len(reqLog)].method = "POST"

\* a 302 whose Location header holds bytes that are not text, after one retry
C11_Witness ==
    /\ postResp.sent
    /\ postResp.status = 302
    /\ postResp.loc = "opaque"
    /\ kresult.kind = "MissingRedirectLocation"
    /\ Len(attempts) = 2

\* C12 as stated: the referer of a successful resolution is the action URL the form
\* was posted to, and the direct link is the Location value.
C12_Original ==
    kresult.kind = "Ok" =>
        /\ kresult.referer = postTarget.link
        /\ kresult.direct_link = postResp.location

\* C12: a successful resolution returns as referer the mirror page link that
\* fetch_kwik_dlink fetched (kwik_link), whatever URL the form was posted to, and as
\* direct link the Location value of the 302 answer to that POST.
C12_RefererIsMirrorLink ==
    kresult.kind = "Ok" =>
        /\ kresult.referer = kwik_link
        /\ kresult.direct_link = postResp.location
        /\ reqLog[Len(reqLog)] = Request("POST", "no_redirect_client", postTarget.link)
        /\ reqLog[Len(reqLog) - 1] = Request("GET", "client", kwik_link)

\* a success whose form went to an action URL other than the mirror page link
C12_Witness ==
    /\ kresult.kind = "Ok"
    /\ postTarget.link \in ActionUrls
    /\ kresult.referer # postTarget.link
    /\ kresult.direct_link \in Locations

\* errors.rs:5-65  the variants of KwikError
KwikErrorKinds ==
    {"BuildClient", "Request", "ResponseBody", "HttpStatus", "MissingRedirectLocation",
     "InvalidAlphabetBaseIndex", "MissingKwikPostLink", "MissingToken", "InvalidOffset",
     "InvalidBase", "RetryLimitExceeded", "MissingKwikLink", "Regex", "ParseInt"}

\* C13: a resolution returns success only when the POST was answered 302 with a
\* Location header, the direct link being that header's value and never empty; every
\* other finished resolution holds a KwikError.
C13_SuccessOnlyFrom302Location ==
    /\ kresult.kind = "Ok" =>
          /\ postResp.sent
          /\ postResp.status = 302
          /\ postResp.loc = "text"
          /\ kresult.direct_link = postResp.location
          /\ kresult.direct_link # NoLink
    /\ (kpc = "done" /\ kresult.kind # "Ok") => kresult.kind \in KwikErrorKinds
    /\ kpc # "panic"

\* a page that was read and holds neither a plain mirror URL nor a packed payload
Bare(r) == r.sent /\ r.status = 200 /\ r.text_ok /\ ~r.has_direct /\ ~r.has_packed

\* C14 as stated: whichever page was fetched, a body with neither a plain mirror URL
\* nor a packed payload ends the resolution with MissingKwikLink.
C14_Original ==
    /\ Bare(paheResp) => (kpc = "done" /\ kresult.kind = "MissingKwikLink")
    /\ \A i \in DOMAIN attempts :
          Bare(attempts[i].resp) => (kpc = "done" /\ kresult.kind = "MissingKwikLink")

\* C14: a first page with neither a plain mirror URL nor a packed payload ends the
\* resolution with MissingKwikLink after that one request; a mirror page without a
\* packed payload (with or without a plain URL) is a retried failure that consumes
\* one unit of the budget, and MissingKwikLink never comes from a mirror page.
C14_MissingLinkOnlyOnFirstPage ==
    /\ Bare(paheResp) =>
          /\ kpc = "done"
          /\ kresult = KErr("MissingKwikLink", "")
          /\ Len(reqLog) = 1
    /\ kresult.kind = "MissingKwikLink" => attempts = <<>>
    /\ \A i \in DOMAIN attempts :
          LET r == attempts[i].resp IN
          (r.sent /\ r.status = 200 /\ r.text_ok /\ ~r.has_packed) =>
              /\ attempts[i].outcome = "PayloadNotFound"
              /\ IF i < Len(attempts)
                 THEN attempts[i + 1].retries = attempts[i].retries - 1
                 ELSE /\ retries = attempts[i].retries - 1
                      /\ kresult.kind \in {"none", "RetryLimitExceeded"}

\* five mirror pages in a row with neither URL nor payload: the budget runs out
C14_Witness ==
    /\ Len(attempts) = RetryBudget
    /\ \A i \in DOMAIN attempts : Bare(attempts[i].resp)
    /\ kresult.kind = "RetryLimitExceeded"

(* ---------------------- the codec on its own ---------------------------- *)
DecodeDone == cpc = "done" /\ fn = "decode"
ExtractDone == cpc = "done" /\ fn = "extract"
SentinelOf(p) == p.alphabet_key[p.base + 1]
FieldsFit(p) == p.offset <= I64Max /\ p.base <= UsizeMax
NoDuplicates(key) == \A i, j \in DOMAIN key : key[i] = key[j] => i = j
NoDecimalDigits(key) == \A i \in DOMAIN key : ~Find(DecimalDigits, key[i]).some

\* the tokens of a text, stated by the positions of the sentinel: token k lies
\* between the (k-1)th and the kth sentinel, and a text that does not end with the
\* sentinel has one more token after the last one
SentinelPositions(text, sentinel) == { j \in DOMAIN text : text[j] = sentinel }
NthPosition(P, k) == CHOOSE x \in P : Cardinality({ y \in P : y < x }) = k - 1
TokenCount(text, sentinel) ==
    Cardinality(SentinelPositions(text, sentinel))
        + (IF text # <<>> /\ text[Len(text)] # sentinel THEN 1 ELSE 0)
TokenAt(text, sentinel, k) ==
    LET P == SentinelPositions(text, sentinel)
        from == IF k = 1 THEN 1 ELSE NthPosition(P, k - 1) + 1
        to == IF k <= Cardinality(P) THEN NthPosition(P, k) - 1 ELSE Len(text) IN
    SubSeq(text, from, to)
TokensOf(p) ==
    [k \in 1..TokenCount(p.encoded, SentinelOf(p)) |-> TokenAt(p.encoded, SentinelOf(p), k)]

RECURSIVE NumberOfDigits(_, _)
\* the number whose digits in `base` are the given values, most significant first
NumberOfDigits(digits, base) ==
    IF digits = <<>> THEN 0
    ELSE NumberOfDigits(SubSeq(digits, 1, Len(digits) - 1), base) * base
            + digits[Len(digits)]
\* a token as a number in `base`: digit(c) is the value of character c
NumberOf(token, base, digit(_)) ==
    NumberOfDigits([i \in DOMAIN token |-> digit(token[i])], base)
\* base^(n - 1), the place value of the first of n digits, fits i64
RECURSIVE PlaceFits(_, _)
PlaceFits(n, base) ==
    IF n <= 1 THEN TRUE
    ELSE PlaceFits(n - 1, base) /\ base^(n - 1) <= I64Max

\* digit values of the characters of a token
KeyIndex(p, c) == Find(p.alphabet_key, c).v
BuiltinDigit(p, c) ==
    LET pos == Find(SubSeq(BaseAlphabet, 1, p.base), c) IN IF pos.some THEN pos.v ELSE 0
InKey(p, c) == Find(p.alphabet_key, c).some
\* a key character whose index is one decimal digit that is a digit of `base`
PlainDigit(p, c) == InKey(p, c) /\ KeyIndex(p, c) < Min(p.base, 10)

\* C15 as stated: whatever the fields of a matched payload, the decode stage gives an
\* error value for an offset or base that does not fit the integer type and for a
\* base not below the key length, and does not panic for a base above 64.
C15_MalformedPayloadGivesError ==
    DecodeDone =>
        /\ packed.offset > I64Max => decoded = DecErr("InvalidOffset")
        /\ (packed.offset <= I64Max /\ packed.base > UsizeMax) =>
              decoded = DecErr("InvalidBase")
        /\ (FieldsFit(packed) /\ packed.base >= Len(packed.alphabet_key)) =>
              decoded = DecErr("InvalidAlphabetBaseIndex")
        /\ packed.base > Len(BaseAlphabet) => decoded.kind # "panic"

\* a payload decode is meant to accept: the fields fit, the key has a sentinel and
\* no duplicate characters, the base is within the built-in alphabet
WellFormed(p) ==
    /\ FieldsFit(p)
    /\ p.base < Len(p.alphabet_key)
    /\ p.base <= Len(BaseAlphabet)
    /\ NoDuplicates(p.alphabet_key)

\* C16 as stated: for a well-formed payload decode returns a text, one character per
\* token, whatever the length of the tokens.
C16_DecodeTotal ==
    (DecodeDone /\ WellFormed(packed)) =>
        /\ decoded.kind = "ok"
        /\ Len(decoded.out) = TokenCount(packed.encoded, SentinelOf(packed))

\* the text the claims expect: one character per token, the token's number minus
\* the offset as a code point
ExpectedText(p, digit(_)) ==
    [k \in 1..TokenCount(p.encoded, SentinelOf(p)) |->
        FromU32(NumberOf(TokenAt(p.encoded, SentinelOf(p), k), p.base, digit) - p.offset)]
\* every character of every token passes ok, and the place values and the number
\* of every token fit i64
AllTokens(p, ok(_), digit(_)) ==
    \A k \in 1..TokenCount(p.encoded, SentinelOf(p)) :
        LET token == TokenAt(p.encoded, SentinelOf(p), k) IN
        /\ \A i \in DOMAIN token : ok(token[i])
        /\ PlaceFits(Len(token), p.base)
        /\ NumberOf(token, p.base, digit) <= I64Max

\* C17 as stated: for every key, the text decoded from tokens of key characters is
\* the one whose code points are the tokens read in `base` with each character
\* standing for its index in the key, minus the offset.
C17_Original ==
    (DecodeDone /\ decoded.kind = "ok" /\ FieldsFit(packed)
        /\ packed.base < Len(packed.alphabet_key)
        /\ \A i \in DOMAIN packed.encoded : InKey(packed, packed.encoded[i])) =>
        decoded.out = ExpectedText(packed, LAMBDA c : KeyIndex(packed, c))

\* C17: for a key without decimal digit characters, tokens whose characters all
\* stand at a key index below min(base, 10) and whose place values fit i64 decode
\* to one character per token, in token order: the token read in `base` with each
\* character standing for its index, minus the offset.
C17_TokensDecodeByIndex ==
    (DecodeDone /\ WellFormed(packed) /\ NoDecimalDigits(packed.alphabet_key)
        /\ AllTokens(packed, LAMBDA c : PlainDigit(packed, c),
                      LAMBDA c : KeyIndex(packed, c))) =>
        /\ decoded.kind = "ok"
        /\ decoded.out = ExpectedText(packed, LAMBDA c : KeyIndex(packed, c))

\* "c", sentinel, "f" under key abcdefg and base 6 decode to the code points 2, 5
C17_Witness ==
    /\ DecodeDone
    /\ packed.alphabet_key = KeyAbcdefg
    /\ packed.base = 6
    /\ packed.offset = 0
    /\ packed.encoded = <<"c", "g", "f">>
    /\ decoded.out = <<2, 5>>

\* C18 as stated: a token character that is not in the key counts as digit 0,
\* whatever the base.
C18_Original ==
    (DecodeDone /\ WellFormed(packed) /\ NoDecimalDigits(packed.alphabet_key)
        /\ AllTokens(packed, LAMBDA c : PlainDigit(packed, c) \/ ~InKey(packed, c),
                      LAMBDA c : IF InKey(packed, c) THEN KeyIndex(packed, c)
                                 ELSE BuiltinDigit(packed, c))) =>
        /\ decoded.kind = "ok"
        /\ decoded.out = ExpectedText(packed,
               LAMBDA c : IF InKey(packed, c) THEN KeyIndex(packed, c) ELSE 0)

\* C18: a token character that is not in the key counts as its position in the
\* built-in alphabet when that position is below the base (the digit "5" as 5, for
\* base 11 the letter "a" as 10), and as 0 only otherwise.
C18_ForeignCharIsBuiltinDigit ==
    (DecodeDone /\ WellFormed(packed) /\ NoDecimalDigits(packed.alphabet_key)
        /\ AllTokens(packed, LAMBDA c : PlainDigit(packed, c) \/ ~InKey(packed, c),
                      LAMBDA c : IF InKey(packed, c) THEN KeyIndex(packed, c)
                                 ELSE BuiltinDigit(packed, c))) =>
        /\ decoded.kind = "ok"
        /\ decoded.out = ExpectedText(packed,
               LAMBDA c : IF InKey(packed, c) THEN KeyIndex(packed, c)
                          ELSE BuiltinDigit(packed, c))

\* under the twelve-character key and base 11 the token "a5" has no key character:
\* "a" counts 10 and "5" counts 5, which makes 115
C18_Witness ==
    /\ DecodeDone
    /\ packed.alphabet_key = KeyTwelve
    /\ packed.base = 11
    /\ packed.offset = 0
    /\ packed.encoded = <<"a", "5">>
    /\ decoded.out = <<115>>

\* the scenario of the specification
IsScenario(p) ==
    /\ p.encoded = <<"5", "c">>
    /\ p.alphabet_key = KeyAbcdef
    /\ p.offset = 0
    /\ p.base = 6

\* C19 as stated: decoding an encoded text gives the text back, and the scenario
\* payload decodes.
C19_Original ==
    DecodeDone =>
        /\ original.built => (decoded.kind = "ok" /\ decoded.out = original.text)
        /\ IsScenario(packed) => decoded.kind = "ok"

\* C19: decoding gives the encoded text back when the key has no decimal digit
\* character and the base is at most 10 (every key index written is one decimal
\* digit); the scenario payload has no key character at index 6 and fails with
\* InvalidAlphabetBaseIndex.
C19_RoundTripSmallBase ==
    DecodeDone =>
        /\ (original.built /\ NoDecimalDigits(packed.alphabet_key) /\ packed.base <= 10) =>
              (decoded.kind = "ok" /\ decoded.out = original.text)
        /\ IsScenario(packed) => decoded = DecErr("InvalidAlphabetBaseIndex")

\* the code points 5, 65 encoded with key abcdefg, offset 1, base 6 and decoded
C19_Witness ==
    /\ DecodeDone
    /\ original = [built |-> TRUE, text |-> <<5, 65>>]
    /\ packed.alphabet_key = KeyAbcdefg
    /\ packed.base = 6
    /\ packed.offset = 1
    /\ decoded.out = <<5, 65>>

\* C20: extract returns the form action when the document has one, the quoted kwik
\* URL only when it has none, MissingKwikPostLink when it has neither, MissingToken
\* when it has a link and no _token value; a success carries a non-empty link and a
\* non-empty token.
C20_ExtractPolicy ==
    ExtractDone =>
        /\ (markup.form # NoLink /\ markup.token # "") =>
              (extracted.ok /\ extracted.link = markup.form)
        /\ (markup.form = NoLink /\ markup.anchor # NoLink /\ markup.token # "") =>
              (extracted.ok /\ extracted.link = markup.anchor)
        /\ (markup.form = NoLink /\ markup.anchor = NoLink) =>
              (~extracted.ok /\ extracted.err = KErr("MissingKwikPostLink", ""))
        /\ ((markup.form # NoLink \/ markup.anchor # NoLink) /\ markup.token = "") =>
              (~extracted.ok /\ extracted.err = KErr("MissingToken", ""))
        /\ extracted.ok =>
              (extracted.link # NoLink /\ extracted.token # ""
                  /\ extracted.token = markup.token)

\* a document with a form action, a quoted kwik URL and a token: the action wins
C20_Witness ==
    /\ ExtractDone
    /\ markup.form # NoLink
    /\ markup.anchor # NoLink
    /\ extracted.ok
    /\ extracted.link = markup.form
    /\ extracted.token = "tok"

(* ------------------- what the transfer tells its observer --------------- *)
\* the positions of the reports of one kind
EventsOf(kind) == {i \in 1..Len(events) : events[i].kind = kind}

\* C21: on both paths a Started report is made before the first request for the
\* resource's bytes (the whole-resource GET or a Range GET) is issued.
C21_StartedBeforeFirstRequest ==
    ByteRequests(wholeGets, rangeReqs) > 0
        => \E i \in EventsOf("Started") : events[i].requested = 0

\* C22: a transfer that returns Ok has made exactly one Finished report, it is the
\* last report (after every Progress) and no byte was written after it; a transfer
\* that returns an error, or is still running, has made none.
C22_FinishedOnceOnSuccess ==
    /\ result = Ok =>
          /\ Cardinality(EventsOf("Finished")) = 1
          /\ events[Len(events)].kind = "Finished"
          /\ events[Len(events)].written = Len(file.bytes)
    /\ result # Ok => EventsOf("Finished") = {}

\* a parallel transfer of two chunks or more that returned Ok after Progress reports
C22_Witness ==
    /\ result = Ok
    /\ Cardinality(DOMAIN task) >= 2
    /\ Cardinality(EventsOf("Progress")) >= 2
    /\ events[Len(events)].kind = "Finished"

\* C23: the downloaded_bytes of successive reports after Started never decrease.
C23_ProgressMonotonic ==
    \A i, j \in EventsOf("Progress") \cup EventsOf("Finished") :
        i <= j => events[i].downloaded_bytes <= events[j].downloaded_bytes

\* a single-stream transfer that reported a larger buffer and then a smaller one
C23_Witness ==
    /\ pc = "single_loop"
    /\ Len(events) = 3
    /\ events[2].downloaded_bytes = 2
    /\ events[3].downloaded_bytes = 3

\* C24: every Progress report and the Finished report carry the number of bytes
\* written to the output file so far; on the parallel path each flushed chunk is
\* followed by a Progress report, and every report carries the probed total.
C24_ReportsBytesWritten ==
    /\ \A i \in EventsOf("Progress") \cup EventsOf("Finished") :
          events[i].downloaded_bytes = events[i].written
    /\ (pc = "par_loop" \/ (pc = "done" /\ DOMAIN task # {} /\ file.created)) =>
          /\ \A i \in 1..Len(events) : events[i].total_bytes = SomeU64(total_size)
          /\ \A k \in 0..(next - 1) :
                \E i \in EventsOf("Progress") :
                    events[i].written = Len(ConcatChunks(task, k + 1))

\* a parallel transfer that flushed two chunks after receiving them out of order
C24_Witness ==
    /\ pc = "par_loop"
    /\ next = 2
    /\ Len(arrived) >= 2
    /\ arrived[1] = 1
    /\ Cardinality(EventsOf("Progress")) >= 2

\* the claim as stated: at least one Progress report whatever the body, an empty
\* one too
C25_Original ==
    (pc # "download" /\ heads = 1 /\ ~size.some /\ (pc # "done" \/ wholeGets > 0)) =>
        /\ DOMAIN task = {}
        /\ rangeReqs = EmptyBag
        /\ result = Ok =>
              /\ Cardinality(EventsOf("Started")) = 1
              /\ Cardinality(EventsOf("Progress")) >= 1
              /\ Cardinality(EventsOf("Finished")) = 1

\* C25: a transfer whose probe reported no content length takes the single-stream
\* path (no task, no Range GET), and when it returns Ok it has made exactly one
\* Started and exactly one Finished report, and at least one Progress report when
\* the body is not empty, none when it is empty.
C25_NoLengthSingleStreamEvents ==
    (pc # "download" /\ heads = 1 /\ ~size.some /\ (pc # "done" \/ wholeGets > 0)) =>
        /\ DOMAIN task = {}
        /\ rangeReqs = EmptyBag
        /\ result = Ok =>
              /\ Cardinality(EventsOf("Started")) = 1
              /\ Cardinality(EventsOf("Finished")) = 1
              /\ resLen > 0 => Cardinality(EventsOf("Progress")) >= 1
              /\ resLen = 0 => EventsOf("Progress") = {}

\* a transfer without a content length that returned Ok after two buffers
C25_Witness ==
    /\ ~size.some
    /\ heads = 1
    /\ wholeGets = 1
    /\ result = Ok
    /\ resLen = 3
    /\ Cardinality(EventsOf("Progress")) = 2

\* C27: in every state of a parallel transfer the channel holds at most `workers`
\* chunk results (its capacity), and the chunks in the pending buffer together
\* with those in the channel are at most `workers`.
C27_BufferedAtMostWorkers ==
    /\ Len(chan) <= workers
    /\ Cardinality(DOMAIN pending) + Len(chan) <= workers

\* three workers: two chunks wait in the pending buffer for chunk 0, which is in
\* the channel
C27_Witness ==
    /\ pc = "par_loop"
    /\ workers = 3
    /\ Cardinality(DOMAIN pending) = 2
    /\ Len(chan) = 1
    /\ chan[1].ok
    /\ chan[1].idx = 0

\* C26: a report never makes the transfer wait.  Whatever the observer has done so
\* far (handled every event, left them all in the channel, or its renderer is
\* disabled), a transfer that has not returned can take a step of its own, so it
\* goes on to return Ok or an error without any step of the observer.
C26_TransferNeverWaitsForObserver == (pc # "done") => ENABLED Next

\* a parallel transfer returned Ok while none of its reports had been received
C26_Witness ==
    /\ opc = "loop"
    /\ result = Ok
    /\ DOMAIN task # {}
    /\ received = 0
    /\ Len(events) >= 3

(* ------------------------------ cookie stores --------------------------- *)
\* C28: within one instance, every cookie that the response to an earlier request
\* set is in the store when a later request is sent, and the later request carries
\* it when it goes to the host that set it: the form POST carries the cookie a
\* mirror page GET set, and so does the GET of a later retry attempt.
C28_PostCarriesPageCookies ==
    \A i \in Instances :
       \A j, k \in 1..Len(sent[i]) :
          j < k =>
             /\ sent[i][j].set \subseteq sent[i][k].store
             /\ sent[i][j].host = sent[i][k].host
                   => sent[i][j].set \subseteq sent[i][k].cookies

\* the first mirror page GET set a cookie, a retry followed, then the POST was sent
C28_Witness ==
    \E i \in Instances :
       /\ Len(sent[i]) = 4
       /\ sent[i][2].set # {}
       /\ sent[i][3].method = "GET"
       /\ sent[i][3].set = {}
       /\ sent[i][4].method = "POST"
       /\ sent[i][4].cookies = sent[i][2].set

\* C29: no request of one instance carries a cookie that a response to the other
\* instance set, in any interleaving of the two resolutions.
C29_NoCookieAcrossInstances ==
    \A i \in Instances :
       \A k \in 1..Len(sent[i]) :
          \A c \in sent[i][k].cookies : c.from \in {0, i}

\* both instances got a cookie from the mirror host and both sent their POST
C29_Witness ==
    \A i \in Instances :
       /\ jpc[i] = "done"
       /\ Len(sent[i]) >= 3
       /\ sent[i][Len(sent[i])].method = "POST"
       /\ sent[i][Len(sent[i])].cookies = {Cookie(KwikHost, i)}

\* C30: when the caller supplied a cookie string, the mirror page GET and the form
\* POST of the resolver carry it, as a Cookie header or from a jar seeded with it.
C30_ResolverCarriesAuthCookie ==
    \A i \in Instances :
       cookie_header[i] # "" =>
          \A k \in 1..Len(sent[i]) :
              \/ sent[i][k].cookie_header = cookie_header[i]
              \/ \E c \in sent[i][k].cookies : c.from = 0

\* C31: no request the library issues reports a 403 response whose body holds a
\* challenge marker as the generic HTTP-status error; here the requests of a
\* resolution (the pahe page GET, the mirror page GET, the form POST)
C31_ChallengeNeverGeneric ==
    ~(/\ kresult.kind = "HttpStatus"
      /\ kresult.status = 403
      /\ DetectDdosGuard(kresult.body))

\* the links of the entries at positions from_episode..to_episode of the release list
ExpectedLinks ==
    LET last == IF to_episode < release_total THEN to_episode ELSE release_total
        n == IF last < from_episode THEN 0 ELSE last - from_episode + 1
    IN [i \in 1..n |-> <<Release(from_episode + i - 1).episode,
                         PlayLink(Release(from_episode + i - 1).session)>>]

\* C33: fetch_series_episode_links returns the play links of exactly the entries at
\* positions from..=to of the ascending release list, in ascending order
C33_LinksAreTheRange ==
    (lresult.kind = "Ok") => (links = ExpectedLinks)

\* C32: every request the transfer engine issues for the direct link (the probe, the
\* whole-resource GET, each Range GET) carries a Referer header
C32_RequestsCarryReferer ==
    \A r \in IssuedRequests : \E h \in r.headers : h[1] = "Referer"

(* ---------------- reassembly and task properties, lib.rs:242-322 --------- *)
\* C34: a parallel transfer returns Ok only when every spawned index was fetched,
\* received and written once, in index order, nothing is left in the pending buffer
\* and the cursor equals the number of spawned tasks
C34_SuccessMeansAllWritten ==
    (result = Ok /\ DOMAIN task # {}) =>
        LET n == Cardinality(DOMAIN task) IN
        /\ DOMAIN task = 0..(n - 1)
        /\ \A i \in DOMAIN task : task[i].st = "done" /\ task[i].res.ok
        /\ DOMAIN pending = {}
        /\ next = n
        /\ Len(arrived) = n
        /\ {arrived[k] : k \in 1..Len(arrived)} = DOMAIN task
        /\ file.bytes = ConcatChunks(task, n)

\* a successful transfer of three chunks whose chunks 1 and 2 waited in the pending
\* buffer for chunk 0
C34_Witness ==
    /\ result = Ok
    /\ arrived = <<1, 2, 0>>
    /\ next = 3
    /\ DOMAIN pending = {}

\* a parallel transfer that has created its file
ParallelStarted == DOMAIN task # {} /\ file.created

\* the claim as stated: in every state of a parallel transfer the file is the
\* chunks 0..next-1 in index order
C35_Original ==
    ParallelStarted => (file.bytes = ConcatChunks(task, next))

\* C35: in every state of a parallel transfer in which no write has failed, the
\* state in which it aborts on a chunk error included, the file is the chunks
\* 0..next-1 in index order, a prefix of the chunks in index order; after a failed
\* write it holds in addition a leading part of chunk `next`
C35_FileIsChunkPrefix ==
    ParallelStarted =>
        /\ next <= Cardinality(DOMAIN task)
        /\ \A i \in 0..(next - 1) : task[i].st = "done" /\ task[i].res.ok
        /\ \A i \in DOMAIN pending : i > next \/ result = Err("Io", "writing output file")
        /\ IF result = Err("Io", "writing output file")
           THEN \E k \in 0..(Len(task[next].res.bytes) - 1) :
                   file.bytes = ConcatChunks(task, next) \o SubSeq(task[next].res.bytes, 1, k)
           ELSE file.bytes = ConcatChunks(task, next)

\* chunk 0 was written, chunk 2 waits in the pending buffer, and the transfer
\* aborted on the error of chunk 1
C35_Witness ==
    /\ pc = "done"
    /\ result = Err("HttpStatus", "downloading chunk")
    /\ next = 1
    /\ 2 \in DOMAIN pending
    /\ file.bytes = task[0].res.bytes
    /\ file.bytes # <<>>

\* C36: every spawned task can always go on: its fetch is not held up by anything,
\* and its one send never waits, whether the loop is slow, has returned on another
\* chunk's error or returned before receiving anything; a task sends once, so
\* while the Receiver lives the results in the channel and the ones received are
\* those of the finished tasks, each once
C36_TaskSendsOnceNeverStuck ==
    /\ \A idx \in DOMAIN task :
          /\ (task[idx].st = "spawned") => ENABLED FetchChunk(idx)
          /\ (task[idx].st = "fetched") => ENABLED SendResult(idx)
    /\ senders = Cardinality({i \in DOMAIN task : task[i].st # "done"})
    /\ rxOpen =>
          LET sentIdx == [k \in 1..(Len(arrived) + Len(chan)) |->
                            IF k <= Len(arrived) THEN arrived[k]
                            ELSE chan[k - Len(arrived)].idx]
          IN /\ \A j, k \in DOMAIN sentIdx : j # k => sentIdx[j] # sentIdx[k]
             /\ {sentIdx[k] : k \in DOMAIN sentIdx} = {i \in DOMAIN task : task[i].st = "done"}

\* the transfer returned because the output file could not be created, before it
\* received anything, and every task has since sent and ended
C36_Witness ==
    /\ result = Err("Io", "creating output file")
    /\ Cardinality(DOMAIN task) = 3
    /\ \A i \in DOMAIN task : task[i].st = "done"
    /\ senders = 0

\* C38: the planner never runs on an empty resource: a probe with length 0 and
\* range support goes to the single-stream path, a plan always has total_size >= 1
\* and workers >= 1, and no task is spawned and no Range request made for it
C38_NoPlanForEmptyResource ==
    /\ pc # "panic"
    /\ (pc \in {"par_create", "par_loop"} \/ DOMAIN task # {}) =>
          (total_size >= 1 /\ workers >= 1 /\ chunk_size >= 1)
    /\ (size = SomeU64(0) /\ accepts_ranges /\ pc # "parallel") =>
          /\ DOMAIN task = {}
          /\ workers = 0
          /\ rangeReqs = EmptyBag
          /\ ss_total = SomeU64(0)
          /\ wholeGets = (IF pc = "single_get" THEN 0 ELSE 1)

\* an empty resource with range support, transferred as a single stream
C38_Witness ==
    /\ size = SomeU64(0)
    /\ accepts_ranges
    /\ result = Ok
    /\ wholeGets = 1
    /\ file.created
    /\ file.bytes = <<>>

\* positions of the form POST in the request log
PostAt == {i \in 1..Len(reqLog) : reqLog[i].method = "POST"}

\* C37: the form POST is issued at most once, only after an attempt whose decode and
\* extraction succeeded, and it is the last request; the mirror page is fetched at
\* most RetryBudget times; a resolution that has not ended can always take a step,
\* and it issues at most RetryBudget + 2 requests, so it ends
C37_PostOnceAndBoundedGets ==
    /\ Cardinality(PostAt) <= 1
    /\ \A i \in PostAt :
          /\ i = Len(reqLog)
          /\ Len(attempts) >= 1
          /\ attempts[Len(attempts)].outcome = "Found"
          /\ attempts[Len(attempts)].resp.has_packed
          /\ reqLog[i - 1] = Request("GET", "client", kwik_link)
          /\ reqLog[i].url = postTarget.link
    /\ KwikGets <= RetryBudget
    /\ KwikGets = Len(attempts)
    /\ Len(reqLog) <= RetryBudget + 2
    /\ (kpc \notin {"done", "panic"}) => ENABLED NextResolver
    /\ (kpc = "post") => Len(reqLog) = 1 + Len(attempts)

\* four attempts without a usable payload, a fifth that decodes and extracts, then
\* the one POST as the seventh and last request
C37_Witness ==
    /\ kpc = "done"
    /\ KwikGets = RetryBudget
    /\ Cardinality(PostAt) = 1
    /\ Len(reqLog) = RetryBudget + 2
    /\ attempts[1].outcome = "PayloadNotFound"
    /\ attempts[4].outcome = "MissingToken"
    /\ attempts[5].outcome = "Found"
    /\ kresult.kind = "Ok"

(* ------------------------ event loop properties -------------------------- *)
\* what the events leave in a renderer, apart from the frame counter
RendererView(r) == [r EXCEPT !.spinner_step = 0, !.initialized = FALSE]
\* a renderer that is given the events one by one, first to last
RECURSIVE Replay(_, _)
Replay(r, evs) ==
    IF evs = <<>> THEN r
    ELSE Replay(Handle(r, evs[1]), SubSeq(evs, 2, Len(evs)))

\* C39: the renderer is given the transfer's events in emission order, and when the
\* loop has used the transfer's result it has been given every event the transfer
\* emitted: the ones still queued when the future completed were handled first
C39_EventsHandledBeforeResult ==
    /\ received <= Len(events)
    /\ RendererView(progress_renderer)
          = RendererView(Replay(RendererNew(progress_renderer.enabled),
                                SubSeq(events, 1, received)))
    /\ (opc \in {"drain", "done"}) => (pc = "done" /\ download_result = result)
    /\ (opc = "done") => (received = Len(events))
    /\ (opc # "done") => (drained = 0)

\* the future completed with all three events of a transfer still queued; the drain
\* loop handled them and the renderer shows the end
C39_Witness ==
    /\ opc = "done"
    /\ download_result = Ok
    /\ Len(events) = 3
    /\ drained = 3
    /\ progress_renderer.enabled
    /\ progress_renderer.status = "Done"
    /\ progress_renderer.downloaded = 1

(* ----------------------- episode argument properties --------------------- *)
\* the text is one or more decimal digits
AllDigits(t) == t # <<>> /\ \A i \in 1..Len(t) : IsDigit(t[i])
\* the number a text of decimal digits stands for
RECURSIVE EpisodeNumber(_)
EpisodeNumber(t) ==
    IF t = <<>> THEN 0
    ELSE 10 * EpisodeNumber(SubSeq(t, 1, Len(t) - 1)) + DigitValue(t[Len(t)])
\* a bare number: digits that stand for an i32 and are too few for a session id
BareNumber(t) == AllDigits(t) /\ EpisodeNumber(t) <= I32Max /\ Len(t) < SessionIdMinLen
\* the argument without the spaces around it
Given == Trim(episodes)
\* the argument is "a-b" with a and b bare numbers
IsSpan ==
    \E i \in 1..Len(Given) :
        /\ Given[i] = "-"
        /\ BareNumber(SubSeq(Given, 1, i - 1))
        /\ BareNumber(SubSeq(Given, i + 1, Len(Given)))
SpanStart == EpisodeNumber(SubSeq(Given, 1, (CHOOSE i \in 1..Len(Given) : Given[i] = "-") - 1))
SpanEnd ==
    EpisodeNumber(SubSeq(Given, (CHOOSE i \in 1..Len(Given) : Given[i] = "-") + 1, Len(Given)))

====
